---- MODULE Spec2Model ----
(***************************************************************************)
(* Knowledge graph, scenario builder and synthesis orchestrator of the     *)
(* generator package, as state machines.                                   *)
(*                                                                         *)
(* A JavaScript Map is modelled as the sequence of its entries <<k, v>>    *)
(* in insertion order, with distinct keys.                                 *)
(***************************************************************************)
EXTENDS Integers, Sequences, FiniteSets, TLC

\* ------------------------------------------------------------------ bounds
\* number of mutating graph calls explored from the empty graph
MaxOps == 4
\* largest finite maxDepth handed to traverse
MaxDepth == 2
\* largest scenario count asked of generateScenarios
MaxCount == 2
\* synthesize: most synthesizers, largest weight, most personas, largest count
MaxSynthesizers == 4
MaxWeight == 3
MaxPersonas == 2
MaxSamples == 7
\* pLimit: most items, largest concurrency
MaxItems == 3
MaxConcurrency == 2
\* transforms: most nodes of the graph handed in, most chunks of a document
MaxNodes == 3
MaxPieces == 2
\* sources of a TestDataGenerator and the total count asked of it
MaxSources == 3
MaxTotal == 3
\* transforms piped into one pipeline
MaxPiped == 2
\* mutations of the graph while a traverse generator is suspended
MaxMutations == 1

\* ------------------------------------------------------------- input sets
NodeIds == {"a", "b", "c"}
NodeTypes == {"document", "chunk"}

Similarity(score) == [type |-> "similarity", score |-> score]
Hierarchy(role) == [type |-> "hierarchy", role |-> role]
Entity == [type |-> "entity", role |-> "related"]

\* similarity scores are kept in tenths (3 is 0.3, 8 is 0.8)
Relationships == {Similarity(3), Similarity(8), Hierarchy("parent")}
RelationshipTypes == {"similarity", "hierarchy", "entity"}

\* the value of an absent optional argument
Undefined == "undefined"
\* the default maxDepth of traverse
Infinity == -1

\* ------------------------------------------------------- JavaScript Map
MapHas(m, k) == \E i \in 1..Len(m) : m[i][1] = k
MapGet(m, k) == m[CHOOSE i \in 1..Len(m) : m[i][1] = k][2]
MapKeys(m) == {m[i][1] : i \in 1..Len(m)}
MapSet(m, k, v) ==
  IF MapHas(m, k)
  THEN [i \in 1..Len(m) |-> IF m[i][1] = k THEN <<k, v>> ELSE m[i]]
  ELSE Append(m, <<k, v>>)
MapDelete(m, k) == SelectSeq(m, LAMBDA e : e[1] # k)
\* new Map(entries): a later entry of a key replaces the value, not the place
RECURSIVE MapFromEntries(_)
MapFromEntries(es) ==
  IF es = <<>> THEN <<>>
  ELSE MapSet(MapFromEntries(SubSeq(es, 1, Len(es) - 1)),
              es[Len(es)][1], es[Len(es)][2])

\* ------------------------------------------------------------ graph nodes
\* new DocumentNode(id, content, metadata) / new ChunkNode(id, content, metadata)
NewNode(id, type, content, metadata) ==
  [id |-> id, type |-> type, content |-> content, metadata |-> metadata,
   relationships |-> <<>>]

\* the nodes handed to addNode: freshly constructed, one content per (id, type)
ContentOf(id, type) == id \o "-" \o type
FreshNodes ==
  {NewNode(id, type, ContentOf(id, type), [source |-> id]) :
     id \in NodeIds, type \in NodeTypes}

\* -------------------------------------------------------- KnowledgeGraph
\* every operation returns [threw, nodes] (the node map after the call)
Ok(g) == [threw |-> FALSE, nodes |-> g]
Threw(g) == [threw |-> TRUE, nodes |-> g]

addNode(g, node) == Ok(MapSet(g, node.id, node))

removeNodeNoCascade(g, id) == Ok(MapDelete(g, id))
removeNodeIfPresent(g, id) ==
  IF ~MapHas(g, id) THEN Ok(g)
  ELSE LET kept == MapDelete(g, id) IN
       Ok([i \in 1..Len(kept) |->
             <<kept[i][1],
               [kept[i][2] EXCEPT !.relationships = MapDelete(@, id)]>>])
removeNode(g, id) ==
  LET kept == MapDelete(g, id) IN
  Ok([i \in 1..Len(kept) |->
        <<kept[i][1],
          [kept[i][2] EXCEPT !.relationships = MapDelete(@, id)]>>])

addRelationshipNoTargetCheck(g, sourceId, targetId, relationship) ==
  IF ~MapHas(g, sourceId) THEN Threw(g)
  ELSE Ok(MapSet(g, sourceId,
             [MapGet(g, sourceId) EXCEPT
                !.relationships = MapSet(@, targetId, relationship)]))
addRelationship(g, sourceId, targetId, relationship) ==
  IF ~MapHas(g, sourceId) THEN Threw(g)
  ELSE IF ~MapHas(g, targetId) THEN Threw(g)
  ELSE Ok(MapSet(g, sourceId,
             [MapGet(g, sourceId) EXCEPT
                !.relationships = MapSet(@, targetId, relationship)]))

removeRelationship(g, sourceId, targetId) ==
  IF ~MapHas(g, sourceId) THEN Threw(g)
  ELSE Ok(MapSet(g, sourceId,
             [MapGet(g, sourceId) EXCEPT
                !.relationships = MapDelete(@, targetId)]))

\* getNeighbors: [threw, value], value the ids of the returned nodes in order
getNeighborsUnchecked(g, id, type) ==
  IF ~MapHas(g, id) THEN [threw |-> TRUE, value |-> <<>>]
  ELSE LET rels == MapGet(g, id).relationships
           kept == SelectSeq(rels, LAMBDA e : ~(type # Undefined /\ e[2].type # type))
       IN [threw |-> FALSE, value |-> [i \in 1..Len(kept) |-> kept[i][1]]]
getNeighbors(g, id, type) ==
  IF ~MapHas(g, id) THEN [threw |-> TRUE, value |-> <<>>]
  ELSE LET rels == MapGet(g, id).relationships
           kept == SelectSeq(rels, LAMBDA e :
                     ~(type # Undefined /\ e[2].type # type) /\ MapHas(g, e[1]))
       IN [threw |-> FALSE, value |-> [i \in 1..Len(kept) |-> kept[i][1]]]

\* traverse: the generator object. state is "suspendedStart" before the first
\* next(), "suspendedYield" while it waits at `yield node` with current the
\* dequeued [id, depth], and "done" once it returned or threw.
NewTraversal(id, maxDepth) ==
  [state |-> "suspendedStart", id |-> id, maxDepth |-> maxDepth,
   visited |-> {}, queue |-> <<>>, current |-> <<>>, yielded |-> <<>>,
   threw |-> FALSE]

\* depth < maxDepth, maxDepth possibly Infinity
DepthBelowOrEqual(depth, maxDepth) == maxDepth = Infinity \/ depth <= maxDepth
DepthBelow(depth, maxDepth) == maxDepth = Infinity \/ depth < maxDepth

\* for (const neighbor of ...) { if (!visited.has) { visited.add; queue.push } }
RECURSIVE Enqueue(_, _, _)
Enqueue(t, neighbors, depth) ==
  IF neighbors = <<>> THEN t
  ELSE LET n == Head(neighbors)
           t1 == IF n \in t.visited THEN t
                 ELSE [t EXCEPT !.visited = @ \cup {n},
                                !.queue = Append(@, <<n, depth + 1>>)]
       IN Enqueue(t1, Tail(neighbors), depth)

\* the head of the while loop: dequeue until a node of the graph is found and
\* yield it, or return when the queue is empty
RECURSIVE Dequeue(_, _)
Dequeue(g, t) ==
  IF t.queue = <<>> THEN [t EXCEPT !.state = "done", !.current = <<>>]
  ELSE LET item == Head(t.queue)
           t1 == [t EXCEPT !.queue = Tail(@)]
       IN IF ~MapHas(g, item[1]) THEN Dequeue(g, t1)
          ELSE [t1 EXCEPT !.state = "suspendedYield", !.current = item,
                          !.yielded = Append(@, item[1])]

\* one call of next() on the generator
traverseNext(g, t) ==
  IF t.state = "suspendedStart"
  THEN Dequeue(g, [t EXCEPT !.visited = {t.id}, !.queue = <<<<t.id, 0>>>>])
  ELSE IF ~DepthBelow(t.current[2], t.maxDepth) THEN Dequeue(g, t)
  ELSE LET r == getNeighbors(g, t.current[1], Undefined) IN
       IF r.threw
       THEN [t EXCEPT !.state = "done", !.threw = TRUE, !.current = <<>>]
       ELSE Dequeue(g, Enqueue(t, r.value, t.current[2]))

\* graph(nodes): a new KnowledgeGraph holding the listed nodes
RECURSIVE graph(_)
graph(list) ==
  IF list = <<>> THEN <<>>
  ELSE addNode(graph(SubSeq(list, 1, Len(list) - 1)), list[Len(list)]).nodes

\* ------------------------------------------- node lists handed to graph()
\* Node objects carry their own relationship map, which may name nodes the
\* list does not hold (a node kept after removeNode, a deserialized node).
IdOrder == <<"a", "b", "c">>
TypeOf(id) == IF id = "a" THEN "document" ELSE "chunk"
RelOf(s, t) ==
  IF s = "a" THEN Hierarchy("parent")
  ELSE IF t = "a" THEN Hierarchy("child")
  ELSE IF s = t THEN Similarity(3)
  ELSE Similarity(8)
KeysInOrder(S) == SelectSeq(IdOrder, LAMBDA k : k \in S)
NodeWith(id, targets) ==
  [NewNode(id, TypeOf(id), ContentOf(id, TypeOf(id)), [source |-> id])
     EXCEPT !.relationships =
       [i \in 1..Len(KeysInOrder(targets)) |->
          <<KeysInOrder(targets)[i], RelOf(id, KeysInOrder(targets)[i])>>]]
Reverse(s) == [i \in 1..Len(s) |-> s[Len(s) + 1 - i]]
NodeLists ==
  UNION {
    LET ids == KeysInOrder(present)
        asc == [i \in 1..Len(ids) |-> NodeWith(ids[i], edges[ids[i]])]
    IN {asc, Reverse(asc)}
    : present \in SUBSET NodeIds, edges \in [NodeIds -> SUBSET NodeIds] }

\* ---------------------------------------------------------- serialization
\* GraphNode.toJSON with the content added by DocumentNode/ChunkNode.toJSON;
\* relationships is Array.from(this.relationships.entries())
nodeToJSON(node) ==
  [id |-> node.id, type |-> node.type, metadata |-> node.metadata,
   relationships |-> node.relationships, content |-> node.content]

\* KnowledgeGraph.toJSON
toJSON(g) == [nodes |-> [i \in 1..Len(g) |-> nodeToJSON(g[i][2])]]

\* a node deserializer returns [threw, node]
NodeOk(node) == [threw |-> FALSE, node |-> node]
NodeThrew == [threw |-> TRUE, node |-> Undefined]

\* json[name], undefined when the object has no such key
Field(json, name) == IF name \in DOMAIN json THEN json[name] ELSE Undefined
HasField(json, name) == name \in DOMAIN json

\* relationshipSchema: a [string, relationship] tuple of one of the three shapes
RelationshipSchemaAccepts(entry) ==
  /\ \/ /\ DOMAIN entry[2] = {"type", "score"}
        /\ entry[2].type = "similarity" /\ entry[2].score \in Int
     \/ /\ DOMAIN entry[2] = {"type", "role"}
        /\ entry[2].type = "hierarchy" /\ entry[2].role \in {"parent", "child"}
     \/ /\ DOMAIN entry[2] = {"type", "role"}
        /\ entry[2].type = "entity" /\ entry[2].role = "related"

\* documentNodeSchema / chunkNodeSchema .parse(json) does not throw
NodeSchemaAccepts(json, type) ==
  /\ HasField(json, "id")
  /\ Field(json, "type") = type
  /\ HasField(json, "content")
  /\ HasField(json, "relationships") =>
       \A i \in 1..Len(json.relationships) :
         RelationshipSchemaAccepts(json.relationships[i])

\* DocumentNode.fromJSON / ChunkNode.fromJSON (zod-validated)
SubclassFromJSON(json, type) ==
  IF ~NodeSchemaAccepts(json, type) THEN NodeThrew
  ELSE NodeOk([NewNode(json.id, type, json.content, Field(json, "metadata"))
                 EXCEPT !.relationships =
                   IF HasField(json, "relationships")
                   THEN MapFromEntries(json.relationships) ELSE <<>>])
DocumentNode_fromJSON(json) == SubclassFromJSON(json, "document")
ChunkNode_fromJSON(json) == SubclassFromJSON(json, "chunk")

\* GraphNode.fromJSON of node.ts: the abstract class's static method
GraphNode_fromJSON(json) == NodeThrew

\* GraphNode.fromJSON of part_013: the variant is picked by json.type
GraphNode_fromJSON_part013(json) ==
  IF Field(json, "type") \notin {"document", "chunk"} THEN NodeThrew
  ELSE NodeOk([NewNode(Field(json, "id"), json.type, Field(json, "content"),
                       Field(json, "metadata"))
                 EXCEPT !.relationships =
                   IF HasField(json, "relationships")
                   THEN MapFromEntries(json.relationships) ELSE <<>>])

\* the three pairings of a KnowledgeGraph.fromJSON with a node module
Variants == {"node.ts", "part_013", "part_012"}

\* KnowledgeGraph.fromJSON of knowledge-graph.ts: every entry goes through
\* GraphNode.fromJSON of the node module in use
RECURSIVE fromJSON(_, _)
fromJSON(data, variant) ==
  IF data = <<>> THEN Ok(<<>>)
  ELSE LET before == fromJSON(SubSeq(data, 1, Len(data) - 1), variant)
           r == IF variant = "node.ts" THEN GraphNode_fromJSON(data[Len(data)])
                ELSE GraphNode_fromJSON_part013(data[Len(data)])
       IN IF before.threw THEN before
          ELSE IF r.threw THEN Threw(<<>>)
          ELSE addNode(before.nodes, r.node)

\* KnowledgeGraph.fromJSON of part_012: dispatch on nodeData.type, no else branch
RECURSIVE fromJSON_part012(_)
fromJSON_part012(data) ==
  IF data = <<>> THEN Ok(<<>>)
  ELSE LET before == fromJSON_part012(SubSeq(data, 1, Len(data) - 1))
           nodeData == data[Len(data)]
           r == IF nodeData.type = "document" THEN DocumentNode_fromJSON(nodeData)
                ELSE ChunkNode_fromJSON(nodeData)
       IN IF before.threw THEN before
          ELSE IF nodeData.type \notin {"document", "chunk"} THEN before
          ELSE IF r.threw THEN Threw(<<>>)
          ELSE addNode(before.nodes, r.node)

KnowledgeGraph_fromJSON(json, variant) ==
  IF variant = "part_012" THEN fromJSON_part012(json.nodes)
  ELSE fromJSON(json.nodes, variant)

\* serialized graphs that no toJSON of the node lists above produces
PersonJSON ==
  [id |-> "p", type |-> "person", metadata |-> [source |-> "p"],
   relationships |-> <<>>, content |-> "p-person"]
EntityJSON ==
  [id |-> "e", type |-> "entity", metadata |-> [source |-> "e"],
   relationships |-> <<>>, content |-> "e-entity"]
NoContentJSON ==
  [id |-> "c", type |-> "chunk", metadata |-> [source |-> "c"]]
ForeignDocuments ==
  {[nodes |-> <<PersonJSON>>],
   [nodes |-> <<EntityJSON>>],
   [nodes |-> <<nodeToJSON(NodeWith("a", {"b"})), PersonJSON,
               nodeToJSON(NodeWith("b", {"a", "c"}))>>],
   [nodes |-> <<nodeToJSON(NodeWith("b", {"c"})), EntityJSON>>],
   [nodes |-> <<NoContentJSON, nodeToJSON(NodeWith("a", {}))>>]}

\* ------------------------------------------------------- scenario builder
\* DEFAULT_CONFIG
QueryLengths == <<"short", "medium", "long">>
QueryStyles == <<"web-search", "conversational", "technical">>
\* MultiHopScenarioBuilder defaults; minSimilarityScore in tenths
MinSimilarityScore == 5
MaxHops == 2

\* Array.from(this.generateQueryConfigs())
QueryConfigs ==
  [k \in 1..(Len(QueryLengths) * Len(QueryStyles)) |->
     [length |-> QueryLengths[((k - 1) \div Len(QueryStyles)) + 1],
      style |-> QueryStyles[((k - 1) % Len(QueryStyles)) + 1]]]

\* shuffle: the arrays the Fisher-Yates loop can return, i the 1-based place
\* the loop is at and j the random place it is swapped with
Swap(arr, i, j) ==
  [k \in 1..Len(arr) |-> IF k = i THEN arr[j] ELSE IF k = j THEN arr[i] ELSE arr[k]]
RECURSIVE ShuffleFrom(_, _)
ShuffleFrom(arr, i) ==
  IF i < 2 THEN {arr}
  ELSE UNION {ShuffleFrom(Swap(arr, i, j), i - 1) : j \in 1..i}
shuffle(arr) == ShuffleFrom(arr, Len(arr))

\* getNodesByType('chunk'), as the ids in node order
getNodesByType(g, type) ==
  LET kept == SelectSeq(g, LAMBDA e : e[2].type = type)
  IN [i \in 1..Len(kept) |-> kept[i][1]]

\* arr[index], undefined when index is NaN (index % 0); index is 0-based
Defined(v) == [defined |-> TRUE, value |-> v]
NotDefined == [defined |-> FALSE]
ElementAtModulo(arr, index) ==
  IF Len(arr) = 0 THEN NotDefined ELSE Defined(arr[(index % Len(arr)) + 1])
\* index % arr.length === 0, false for NaN
ModuloIsZero(arr, index) == Len(arr) # 0 /\ index % Len(arr) = 0

isQualifiedOrSimilar(relationship) ==
  relationship.type \in {"hierarchy", "similarity"}
isQualified(relationship) ==
  \/ relationship.type = "hierarchy"
  \/ relationship.type = "similarity" /\ relationship.score >= MinSimilarityScore

\* the for loop of findConnectedNodes over currentNode.relationships;
\* b is [nodes, queue, visited]
RECURSIVE VisitRelationships(_, _, _, _)
VisitRelationships(g, b, rels, depth) ==
  IF rels = <<>> THEN b
  ELSE LET neighborId == Head(rels)[1]
           relationship == Head(rels)[2]
           take == /\ neighborId \notin b.visited
                   /\ isQualified(relationship)
                   /\ MapHas(g, neighborId)
                   /\ MapGet(g, neighborId).type = "chunk"
           b1 == IF take
                 THEN [nodes |-> Append(b.nodes, neighborId),
                       queue |-> Append(b.queue, <<neighborId, depth + 1>>),
                       visited |-> b.visited \cup {neighborId}]
                 ELSE b
       IN VisitRelationships(g, b1, Tail(rels), depth)

\* the while loop of findConnectedNodes; a queued node object is read through
\* the graph, which holds it
RECURSIVE DrainQueue(_, _)
DrainQueue(g, b) ==
  IF b.queue = <<>> THEN b
  ELSE LET currentId == Head(b.queue)[1]
           depth == Head(b.queue)[2]
           b1 == [b EXCEPT !.queue = Tail(@)]
       IN IF depth >= MaxHops THEN DrainQueue(g, b1)
          ELSE DrainQueue(g, VisitRelationships(g, b1,
                               MapGet(g, currentId).relationships, depth))

\* findConnectedNodes: [nodes, queue, visited] with the group in nodes
findConnectedNodes(g, startId, visited) ==
  DrainQueue(g, [nodes |-> <<startId>>, queue |-> <<<<startId, 0>>>>,
                 visited |-> visited \cup {startId}])

\* group.length >= 2 && group.length <= this.maxHops + 1
GroupSizeAtLeastTwo(group) == Len(group) >= 2
GroupSizeOk(group) == Len(group) >= 2 /\ Len(group) <= MaxHops + 1

\* findConnectedNodeGroups: acc is [groups, visited]
RECURSIVE GroupsFrom(_, _, _)
GroupsFrom(g, chunkNodes, acc) ==
  IF chunkNodes = <<>> THEN acc
  ELSE IF Head(chunkNodes) \in acc.visited
       THEN GroupsFrom(g, Tail(chunkNodes), acc)
       ELSE LET found == findConnectedNodes(g, Head(chunkNodes), acc.visited)
            IN GroupsFrom(g, Tail(chunkNodes),
                 [groups |-> IF GroupSizeOk(found.nodes)
                             THEN Append(acc.groups, found.nodes) ELSE acc.groups,
                  visited |-> found.visited])
findConnectedNodeGroups(g, chunkNodes) ==
  GroupsFrom(g, chunkNodes, [groups |-> <<>>, visited |-> {}]).groups

\* for (let i = 0; i < chunkNodes.length - 1; i += 2) push [chunk i, chunk i+1]
PairAdjacent(chunkNodes) ==
  [k \in 1..(Len(chunkNodes) \div 2) |-> <<chunkNodes[2 * k - 1], chunkNodes[2 * k]>>]

\* the groups MultiHopScenarioBuilder.build cycles through
connectedGroups(g, chunkNodes) ==
  IF findConnectedNodeGroups(g, chunkNodes) = <<>>
  THEN PairAdjacent(chunkNodes)
  ELSE findConnectedNodeGroups(g, chunkNodes)

\* the list a builder cycles through: one-node contexts for single-hop
SingleNodeContexts(chunkNodes) == [i \in 1..Len(chunkNodes) |-> <<chunkNodes[i]>>]
ContextPool(g, type, chunkNodes) ==
  IF type = "single-hop" THEN SingleNodeContexts(chunkNodes)
  ELSE connectedGroups(g, chunkNodes)

\* the builder after `const scenarios = []` ... `let index = 0`; chunkNodes
\* is the shuffled chunk list and groups what findConnectedNodeGroups
\* returned for it, before the fallback to pairs
NewBuild(g, persona, count, type, chunkNodes) ==
  [state |-> IF chunkNodes = <<>> THEN "returned" ELSE "running",
   persona |-> persona, count |-> count, type |-> type,
   chunkNodes |-> chunkNodes,
   groups |-> IF type = "multi-hop" /\ chunkNodes # <<>>
              THEN findConnectedNodeGroups(g, chunkNodes) ELSE <<>>,
   pool |-> IF chunkNodes = <<>> THEN <<>> ELSE ContextPool(g, type, chunkNodes),
   index |-> 0, scenarios |-> <<>>]

\* while (scenarios.length < count)
LoopRunsMore(b) == Len(b.scenarios) <= b.count
LoopRuns(b) == Len(b.scenarios) < b.count

\* one pass of the while loop body, before the reshuffle
PushScenario(b, k) ==
  [b EXCEPT
     !.scenarios = Append(@, [persona |-> b.persona,
                              context |-> [nodes |-> ElementAtModulo(b.pool, b.index)],
                              query |-> [length |-> QueryConfigs[k].length,
                                         style |-> QueryConfigs[k].style,
                                         type |-> b.type]]),
     !.index = @ + 1]

\* the graphs scenarios are built from
ChunkOf(id, entries) ==
  [NewNode(id, "chunk", ContentOf(id, "chunk"), [source |-> id])
     EXCEPT !.relationships = entries]
DocumentOf(id, entries) ==
  [NewNode(id, "document", ContentOf(id, "document"), [source |-> id])
     EXCEPT !.relationships = entries]
ScenarioNodeLists ==
  {<<DocumentOf("a", <<>>)>>,
   <<ChunkOf("b", <<>>)>>,
   <<DocumentOf("a", <<<<"b", Hierarchy("parent")>>>>),
     ChunkOf("b", <<<<"a", Hierarchy("child")>>>>)>>,
   <<ChunkOf("b", <<>>), ChunkOf("c", <<>>)>>,
   <<ChunkOf("b", <<<<"c", Similarity(8)>>>>), ChunkOf("c", <<>>)>>,
   <<ChunkOf("b", <<<<"c", Similarity(3)>>>>), ChunkOf("c", <<>>)>>,
   <<ChunkOf("b", <<<<"c", Entity>>>>), ChunkOf("c", <<<<"b", Similarity(5)>>>>)>>,
   <<ChunkOf("a", <<<<"b", Similarity(8)>>>>),
     ChunkOf("b", <<<<"c", Similarity(8)>>>>), ChunkOf("c", <<>>)>>,
   <<ChunkOf("a", <<>>), ChunkOf("b", <<>>), ChunkOf("c", <<>>)>>,
   <<ChunkOf("a", <<<<"b", Similarity(8)>>>>),
     ChunkOf("b", <<<<"c", Hierarchy("parent")>>>>),
     ChunkOf("c", <<<<"d", Similarity(5)>>>>), ChunkOf("d", <<>>)>>,
   <<ChunkOf("b", <<<<"a", Hierarchy("child")>>>>),
     DocumentOf("a", <<<<"c", Hierarchy("parent")>>>>), ChunkOf("c", <<>>)>>,
   <<ChunkOf("a", <<<<"b", Similarity(8)>>, <<"c", Similarity(8)>>,
                    <<"d", Hierarchy("parent")>>>>),
     ChunkOf("b", <<>>), ChunkOf("c", <<>>), ChunkOf("d", <<>>)>>,
   <<ChunkOf("a", <<<<"b", Similarity(8)>>>>), ChunkOf("b", <<>>),
     ChunkOf("c", <<<<"d", Hierarchy("parent")>>>>), ChunkOf("d", <<>>)>>}
Personas == {[name |-> "Support engineer", description |-> "answers tickets"]}
ScenarioTypes == {"single-hop", "multi-hop"}

\* ------------------------------------------------------------- synthesize
RECURSIVE SumSeq(_)
SumSeq(s) == IF s = <<>> THEN 0 ELSE s[Len(s)] + SumSeq(SubSeq(s, 1, Len(s) - 1))

\* Math.round(n / d): the nearest integer, a half rounded towards +Infinity
MathRound(n, d) ==
  IF d > 0 THEN (2 * n + d) \div (2 * d) ELSE (-(2 * n) - d) \div (-(2 * d))

\* samplesPerSynthesizer before the correction
roundedCounts(weights, count) ==
  [i \in 1..Len(weights) |-> MathRound(count * weights[i], SumSeq(weights))]

\* the reduce that finds largestIndex: a later entry wins only when greater
RECURSIVE largestIndexUpTo(_, _)
largestIndexUpTo(counts, n) ==
  IF n <= 1 THEN 1
  ELSE LET maxIdx == largestIndexUpTo(counts, n - 1)
       IN IF counts[n] > counts[maxIdx] THEN n ELSE maxIdx
largestIndex(counts) == largestIndexUpTo(counts, Len(counts))

\* the difference added to the largest allocation when it is not 0
correctedOnlyUpwards(counts, count) ==
  LET difference == count - SumSeq(counts) IN
  IF difference > 0
  THEN [counts EXCEPT ![largestIndex(counts)] = @ + difference]
  ELSE counts
corrected(counts, count) ==
  LET difference == count - SumSeq(counts) IN
  IF difference # 0
  THEN [counts EXCEPT ![largestIndex(counts)] = @ + difference]
  ELSE counts

\* synthesize up to the allocation: [threw, counts]
allocate(weights, personaCount, count) ==
  IF Len(weights) = 0 \/ personaCount = 0 \/ SumSeq(weights) = 0
  THEN [threw |-> TRUE, counts |-> <<>>]
  ELSE [threw |-> FALSE, counts |-> corrected(roundedCounts(weights, count), count)]

\* the weights, persona counts and sample counts synthesize is called with
Weights == (-1)..MaxWeight
WeightLists == UNION {[1..n -> Weights] : n \in 0..MaxSynthesizers}

\* personaCount of the persona at index (from 0) for a synthesizer's count > 0
personaCountOfNoRemainder(count, personas, index) == count \div personas
personaCountOf(count, personas, index) ==
  (count \div personas) + (IF index < count % personas THEN 1 ELSE 0)

\* the generateScenarios calls of the loop over samplesPerSynthesizer, in
\* order: a synthesizer with count <= 0 is skipped, a persona with
\* personaCount 0 is not asked
generateScenariosCalls(counts, personas) ==
  LET all == [k \in 1..(Len(counts) * personas) |->
                LET i == ((k - 1) \div personas) + 1
                    index == (k - 1) % personas
                IN [synthesizer |-> i, persona |-> index,
                    personaCount |->
                      IF counts[i] <= 0 THEN 0
                      ELSE personaCountOf(counts[i], personas, index)]]
  IN SelectSeq(all, LAMBDA c : c.personaCount > 0)

\* scenariosWithSynthesizers: one entry for each scenario of each call, for
\* a graph from which generateScenarios returns as many as it is asked for
RECURSIVE scenariosWithSynthesizers(_)
scenariosWithSynthesizers(calls) ==
  IF calls = <<>> THEN <<>>
  ELSE LET c == Head(calls) IN
       [n \in 1..c.personaCount |->
          [synthesizer |-> c.synthesizer, persona |-> c.persona, scenario |-> n]]
       \o scenariosWithSynthesizers(Tail(calls))

\* the number of scenarios asked for over all the calls
RECURSIVE scenariosRequested(_)
scenariosRequested(calls) ==
  IF calls = <<>> THEN 0
  ELSE Head(calls).personaCount + scenariosRequested(Tail(calls))

DEFAULT_CONFIG == [concurrency |-> 5, generateGroundTruth |-> TRUE]
\* the configurations the sample generation is explored with
Configs == [concurrency : 1..MaxConcurrency, generateGroundTruth : BOOLEAN]

\* ------------------------------------------------------------------ pLimit
\* the items pLimit is called with in isolation, and what fn resolves to
ItemValues == {1, 2}
ItemLists == UNION {[1..n -> ItemValues] : n \in 0..MaxItems}
Double(n) == n * 2
\* the question texts the model answers a question request with
Questions == {"q1", "q2"}
Answer(question) == <<"answer to", question>>

\* content.trim() is empty
Blank(content) == content \in {"", "  "}

\* fn(item) up to its first await. The task of synthesize has sent the
\* question request of synthesizer.generate; the task of summarize has
\* returned for a blank content and has sent its text request otherwise;
\* the task of generatePersonas has sent its persona request; the task of
\* TestDataGenerator.generate has called task.source.generate with
\* task.count; any other fn is just pending.
startCall(fn, item) ==
  IF fn = "generate"
  THEN [state |-> "question", item |-> item, requests |-> <<"question">>]
  ELSE IF fn = "persona"
  THEN [state |-> "persona", item |-> item, requests |-> <<"persona">>]
  ELSE IF fn = "summarize"
  THEN IF Blank(item.content)
       THEN [state |-> "returned", item |-> item, requests |-> <<>>]
       ELSE [state |-> "text", item |-> item, requests |-> <<"text">>]
  ELSE IF fn = "source"
  THEN [state |-> "source", item |-> item, requests |-> <<item.count>>,
        rejected |-> FALSE]
  ELSE [state |-> "pending", item |-> item, requests |-> <<>>]

\* pLimit before its loop
NewPLimit(fn, items, config) ==
  [state |-> "loop", fn |-> fn, items |-> items,
   concurrency |-> config.concurrency,
   generateGroundTruth |-> config.generateGroundTruth,
   calls |-> <<>>, executing |-> <<>>, settled |-> <<>>]

\* one turn of the for loop up to its await, or the call of Promise.all
loopStep(p) ==
  IF Len(p.calls) < Len(p.items)
  THEN LET item == p.items[Len(p.calls) + 1]
           executing == Append(p.executing, item)
       IN [p EXCEPT !.calls = Append(@, startCall(p.fn, item)),
                    !.executing = executing,
                    !.state = IF Len(executing) >= p.concurrency
                              THEN "race" ELSE "loop"]
  ELSE [p EXCEPT !.state = "all"]

\* the for loop from its current turn to its next await, or to the call of
\* Promise.all: the turns between two awaits run without interruption
RECURSIVE loopToAwait(_)
loopToAwait(p) ==
  IF loopStep(p).state = "loop" THEN loopToAwait(loopStep(p)) ELSE loopStep(p)

\* Promise.race(executing): executing holds the items, which are no
\* promises, so the race is won by its first entry and the loop goes on
raceResolves(p) == [p EXCEPT !.state = "loop"]

\* the promise of call k fulfils with value; .then drops its item from executing
fulfil(p, k, value) ==
  LET c == p.calls[k] IN
  [p EXCEPT !.calls[k] = [f \in DOMAIN c \cup {"value"} |->
                            IF f = "state" THEN "fulfilled"
                            ELSE IF f = "value" THEN value ELSE c[f]],
            !.executing = SelectSeq(@, LAMBDA i : i # c.item),
            !.settled = Append(@, k)]

\* the promise of call k rejects; .then has no rejection handler
reject(p, k) ==
  [p EXCEPT !.calls[k].state = "rejected", !.settled = Append(@, k)]

\* generateQuestion has resolved: generate goes on to generateGroundTruth,
\* which sends the answer request whatever the configuration says
questionGenerated(p, k, question) ==
  LET c == p.calls[k] IN
  [p EXCEPT !.calls[k] = [state |-> "answer", item |-> c.item,
                          requests |-> Append(c.requests, "answer"),
                          question |-> question]]

\* the sample generate returns, and the task's delete of its reference
generatedSample(question, generateGroundTruth) ==
  LET sample == [query |-> question, response |-> "",
                 reference |-> Answer(question)]
  IN IF ~generateGroundTruth
     THEN [f \in DOMAIN sample \ {"reference"} |-> sample[f]]
     ELSE sample

\* Promise.all(results): the values of the calls in the order of results
promiseAllInCompletionOrder(p) ==
  [k \in 1..Len(p.calls) |-> p.calls[p.settled[k]].value]
promiseAll(p) == [k \in 1..Len(p.calls) |-> p.calls[k].value]

\* Promise.all(results) rejects with the reason of the first of its
\* promises to reject, here the place of that call
firstRejected(p) ==
  LET rejected == {i \in 1..Len(p.settled) :
                     p.calls[p.settled[i]].state = "rejected"}
  IN p.settled[CHOOSE i \in rejected : \A j \in rejected : i <= j]
promiseAllRejects(p) ==
  [f \in DOMAIN p \cup {"reason"} |->
     IF f = "state" THEN "rejected"
     ELSE IF f = "reason" THEN firstRejected(p) ELSE p[f]]

\* the calls of fn that have started and not settled
inFlight(p) ==
  {k \in 1..Len(p.calls) : p.calls[k].state \notin {"fulfilled", "rejected"}}

\* -------------------------------------------------------------- transforms
\* Embeddings are vectors of whole length, so that every cosine similarity
\* is a whole number of hundredths; similarities, thresholds and the scores
\* the relationship transform writes are kept in hundredths (70 is 0.7).
Embeddings == {<<1, 0>>, <<0, 1>>, <<3, 4>>, <<4, 3>>}
Dot(a, b) == SumSeq([i \in 1..Len(a) |-> a[i] * b[i]])
Magnitude(a) == CHOOSE n \in 0..Dot(a, a) : n * n = Dot(a, a)
cosineSimilarity(a, b) == (100 * Dot(a, b)) \div (Magnitude(a) * Magnitude(b))

\* graph.getNodes(): the nodes in insertion order
getNodes(g) == [i \in 1..Len(g) |-> g[i][2]]

\* the default threshold of relationship() and the thresholds explored
DefaultThreshold == 70
Thresholds == {DefaultThreshold, 80, 100}

\* node.type === 'chunk' && node.metadata.embeddings
HasEmbeddings(node) ==
  node.type = "chunk" /\ "embeddings" \in DOMAIN node.metadata

\* similarity >= threshold
aboveThreshold(similarity, threshold) == similarity > threshold
atOrAboveThreshold(similarity, threshold) == similarity >= threshold

\* the inner loop of relationship.apply from j on, for the node at i
RECURSIVE linkFrom(_, _, _, _, _)
linkFrom(g, ns, i, j, threshold) ==
  IF j > Len(ns) THEN g
  ELSE LET similarity == cosineSimilarity(ns[i].metadata.embeddings,
                                          ns[j].metadata.embeddings)
           g1 == IF atOrAboveThreshold(similarity, threshold)
                 THEN addRelationship(g, ns[i].id, ns[j].id,
                                      Similarity(similarity)).nodes
                 ELSE g
       IN linkFrom(g1, ns, i, j + 1, threshold)

\* the outer loop of relationship.apply from i on
RECURSIVE linkAll(_, _, _, _)
linkAll(g, ns, i, threshold) ==
  IF i > Len(ns) THEN g
  ELSE linkAll(linkFrom(g, ns, i, i + 1, threshold), ns, i + 1, threshold)

\* relationship(threshold).apply(graph)
relationshipApply(g, threshold) ==
  LET ns == SelectSeq(getNodes(g), HasEmbeddings)
  IN IF Len(ns) = 0 THEN g ELSE linkAll(g, ns, 1, threshold)

\* {...a, ...b}: the keys of both, b's value where both have the key
Spread(a, b) ==
  [k \in DOMAIN a \cup DOMAIN b |-> IF k \in DOMAIN b THEN b[k] ELSE a[k]]

\* the splitter: it cuts a document into splitter.pieces chunks of
\* splitter.chunkSize characters and calls createChunk for each
ChunkId(documentId, index) == documentId \o "-chunk-" \o ToString(index)
Piece(content, index) == content \o "#" \o ToString(index)
createChunk(document, index, splitter) ==
  [id |-> ChunkId(document.id, index),
   content |-> Piece(document.content, index),
   metadata |-> [start |-> index * splitter.chunkSize,
                 end |-> (index * splitter.chunkSize) + splitter.chunkSize,
                 index |-> index, documentId |-> document.id]]
split(document, splitter) ==
  [n \in 1..splitter.pieces |-> createChunk(document, n - 1, splitter)]
Splitters == {[pieces |-> n, chunkSize |-> 10 + n] : n \in 0..MaxPieces}

nodeToDocument(node) ==
  [id |-> node.id, content |-> node.content, metadata |-> node.metadata]

\* the body of `for await (const chunk of chunks)` for one chunk of node
addChunkParentOnly(g, node, chunk) ==
  LET g1 == addNode(g, NewNode(chunk.id, "chunk", chunk.content,
                               Spread(node.metadata, chunk.metadata))).nodes
  IN addRelationship(g1, node.id, chunk.id, Hierarchy("parent"))
addChunk(g, node, chunk) ==
  LET g1 == addNode(g, NewNode(chunk.id, "chunk", chunk.content,
                               Spread(node.metadata, chunk.metadata))).nodes
      r2 == addRelationship(g1, node.id, chunk.id, Hierarchy("parent"))
  IN IF r2.threw THEN r2
     ELSE addRelationship(r2.nodes, chunk.id, node.id, Hierarchy("child"))

\* the chunks of one document in turn; a throw of addRelationship ends apply
RECURSIVE addChunks(_, _, _)
addChunks(g, node, chunks) ==
  IF chunks = <<>> THEN Ok(g)
  ELSE LET r == addChunk(g, node, Head(chunks)) IN
       IF r.threw THEN r ELSE addChunks(r.nodes, node, Tail(chunks))

\* the loop over the document nodes found when apply started
RECURSIVE chunkDocuments(_, _, _)
chunkDocuments(g, documents, splitter) ==
  IF documents = <<>> THEN Ok(g)
  ELSE LET node == Head(documents)
           r == addChunks(g, node, split(nodeToDocument(node), splitter))
       IN IF r.threw THEN r
          ELSE chunkDocuments(r.nodes, Tail(documents), splitter)

\* chunk(splitter).apply(graph): [threw, nodes]
chunkApply(g, splitter) ==
  chunkDocuments(g, SelectSeq(getNodes(g), LAMBDA n : n.type = "document"),
                 splitter)

\* ---------------------------------------------------------------- summarize
\* config.filter, by the nodes it lets through
Filters == {"all", "chunk", "document"}
filterAccepts(filter, node) == filter = "all" \/ node.type = filter
\* the texts generateText resolves to
Texts == {"short", "a longer summary"}

\* call c of fn with what the model made of its request: Defined(text) for
\* a response, NotDefined for a failure
withResponse(c, response) ==
  [f \in DOMAIN c \cup {"response"} |->
     IF f = "response" THEN response ELSE c[f]]

\* generateText has resolved for task k: the task returns {node, summary}
textGenerated(p, k, text) ==
  fulfil([p EXCEPT !.calls[k] = withResponse(@, Defined(text))], k,
         [node |-> p.calls[k].item.id, summary |-> text])

\* generateText has rejected for task k: the catch returns an empty summary
textFailedUncaught(p, k) ==
  reject([p EXCEPT !.calls[k] = withResponse(@, NotDefined)], k)
textFailed(p, k) ==
  fulfil([p EXCEPT !.calls[k] = withResponse(@, NotDefined)], k,
         [node |-> p.calls[k].item.id, summary |-> ""])

\* the task of a node with blank content has returned {node, summary: ''}
summaryReturned(p, k) ==
  fulfil(p, k, [node |-> p.calls[k].item.id, summary |-> ""])

\* for (const {node, summary} of summaryPromises) node.metadata = {...}
RECURSIVE assignSummaries(_, _)
assignSummaries(g, results) ==
  IF results = <<>> THEN g
  ELSE LET r == Head(results)
           g1 == IF MapHas(g, r.node)
                 THEN MapSet(g, r.node,
                        [MapGet(g, r.node) EXCEPT
                           !.metadata = Spread(@, [summary |-> r.summary])])
                 ELSE g
       IN assignSummaries(g1, Tail(results))

\* the nodes of the graphs the transforms are applied to: documents and
\* chunks, with and without embeddings, some with relationships of their own
WithMetadata(node, metadata) == [node EXCEPT !.metadata = metadata]
TransformNodes ==
  {DocumentOf("a", <<>>),
   WithMetadata(DocumentOf("a", <<>>),
                [source |-> "a", embeddings |-> <<1, 0>>, index |-> -1]),
   DocumentOf(ChunkId("a", 0), <<>>),
   ChunkOf("b", <<>>),
   WithMetadata(ChunkOf("b", <<>>), [source |-> "b", embeddings |-> <<1, 0>>]),
   WithMetadata(ChunkOf("b", <<<<"c", Similarity(50)>>>>),
                [source |-> "b", embeddings |-> <<1, 0>>]),
   WithMetadata(ChunkOf("c", <<>>), [source |-> "c", embeddings |-> <<4, 3>>]),
   WithMetadata(ChunkOf("c", <<>>), [source |-> "c", embeddings |-> <<0, 1>>]),
   WithMetadata(ChunkOf("c", <<<<"b", Hierarchy("child")>>>>),
                [source |-> "c", embeddings |-> <<4, 3>>]),
   WithMetadata(ChunkOf("d", <<>>), [source |-> "d", embeddings |-> <<3, 4>>])}
DistinctIds(list) == \A i, j \in 1..Len(list) : list[i].id = list[j].id => i = j
TransformNodeLists ==
  {list \in UNION {[1..n -> TransformNodes] : n \in 0..MaxNodes} :
     DistinctIds(list)}

\* ----------------------------------------------------------------- personas
\* the default similarityThreshold of selectRepresentativeSummaries
SimilarityThreshold == 75

\* the filter of generatePersonas: a summary that is not blank and a
\* summaryEmbedding that is not empty
hasSummaryEmbedding(node) ==
  /\ "summary" \in DOMAIN node.metadata
  /\ ~Blank(node.metadata.summary)
  /\ "summaryEmbedding" \in DOMAIN node.metadata
  /\ Len(node.metadata.summaryEmbedding) > 0

\* the member of a cluster a new node is compared with
lastOfCluster(cluster) == cluster[Len(cluster)]
representativeOfCluster(cluster) == cluster[1]

\* the scan `for (const cluster of clusters)` from cluster c on: the index of
\* the first cluster the node joins, 0 when it joins none
RECURSIVE clusterToJoin(_, _, _, _)
clusterToJoin(clusters, node, c, threshold) ==
  IF c > Len(clusters) THEN 0
  ELSE IF cosineSimilarity(node.metadata.summaryEmbedding,
            representativeOfCluster(clusters[c]).metadata.summaryEmbedding)
            >= threshold
       THEN c
       ELSE clusterToJoin(clusters, node, c + 1, threshold)

\* the loop `for (const node of nodes)` over the nodes not yet placed
RECURSIVE clustersFrom(_, _, _)
clustersFrom(clusters, ns, threshold) ==
  IF ns = <<>> THEN clusters
  ELSE LET node == Head(ns)
           c == clusterToJoin(clusters, node, 1, threshold)
       IN clustersFrom(IF c = 0 THEN Append(clusters, <<node>>)
                       ELSE [clusters EXCEPT ![c] = Append(@, node)],
                       Tail(ns), threshold)

\* cluster.reduce: the first member with the longest summary
RECURSIVE longestUpTo(_, _)
longestUpTo(cluster, n) ==
  IF n <= 1 THEN cluster[1]
  ELSE LET longest == longestUpTo(cluster, n - 1) IN
       IF Len(cluster[n].metadata.summary) > Len(longest.metadata.summary)
       THEN cluster[n] ELSE longest

selectRepresentativeSummaries(ns, threshold) ==
  LET clusters == clustersFrom(<<>>, ns, threshold) IN
  [c \in 1..Len(clusters) |->
     LET representative == longestUpTo(clusters[c], Len(clusters[c]))
     IN [node |-> representative.id,
         summary |-> representative.metadata.summary]]

\* count ? Array.from({length: count}, (_, i) => representatives[i % length])
\*       : representatives, count being Defined(n) or NotDefined
selectedRepresentatives(representatives, count) ==
  IF count.defined /\ count.value # 0
  THEN [n \in 1..count.value |->
          representatives[((n - 1) % Len(representatives)) + 1]]
  ELSE representatives

\* generatePersonas up to its await of pLimit: [threw, clusters, selected]
personaRequests(g, count) ==
  LET nodesWithEmbeddings == SelectSeq(getNodes(g), hasSummaryEmbedding)
      clusters == clustersFrom(<<>>, nodesWithEmbeddings, SimilarityThreshold)
      representatives ==
        selectRepresentativeSummaries(nodesWithEmbeddings, SimilarityThreshold)
  IN IF Len(nodesWithEmbeddings) = 0 \/ Len(representatives) = 0
     THEN [threw |-> TRUE, clusters |-> <<>>, selected |-> <<>>]
     ELSE [threw |-> FALSE, clusters |-> clusters,
           selected |-> selectedRepresentatives(representatives, count)]

\* personaPromises.filter((p) => p !== null)
nonNullUpToFirstNull(values) ==
  LET firstNull == {i \in 1..Len(values) : ~values[i].defined}
      n == IF firstNull = {} THEN Len(values)
           ELSE (CHOOSE i \in firstNull : \A j \in firstNull : i <= j) - 1
  IN [i \in 1..n |-> values[i].value]
nonNull(values) ==
  LET kept == SelectSeq(values, LAMBDA v : v.defined)
  IN [i \in 1..Len(kept) |-> kept[i].value]

\* a node with a summary and its embedding
Summarized(node, summary, summaryEmbedding) ==
  WithMetadata(node, [source |-> node.id, summary |-> summary,
                      summaryEmbedding |-> summaryEmbedding])
PersonaNodes ==
  {Summarized(DocumentOf("a", <<>>), "short", <<1, 0>>),
   Summarized(ChunkOf("b", <<>>), "a longer summary", <<4, 3>>),
   Summarized(ChunkOf("c", <<>>), "of length 16 too", <<0, 1>>),
   Summarized(ChunkOf("d", <<>>), "the longest summary", <<3, 4>>),
   Summarized(ChunkOf("d", <<>>), "  ", <<3, 4>>),
   ChunkOf("c", <<>>)}
PersonaNodeLists ==
  {list \in UNION {[1..n -> PersonaNodes] : n \in 0..MaxNodes} :
     DistinctIds(list)}
\* the default concurrency of generatePersonas
DefaultConcurrency == 5
\* the objects generateObject resolves to
GeneratedPersonas ==
  Personas \cup {[name |-> "Data scientist", description |-> "builds models"]}
PersonaCounts == {NotDefined} \cup {Defined(n) : n \in 0..MaxItems}

\* the nodes summarize is applied to: with and without content, one with a
\* summary already
SummarizeNodes ==
  {DocumentOf("a", <<>>),
   WithMetadata(ChunkOf("b", <<>>), [source |-> "b", embeddings |-> <<1, 0>>]),
   WithMetadata(ChunkOf("b", <<>>), [source |-> "b", summary |-> "old"]),
   [ChunkOf("c", <<>>) EXCEPT !.content = "  "],
   ChunkOf("d", <<<<"b", Similarity(80)>>>>)}
SummarizeNodeLists ==
  {list \in UNION {[1..n -> SummarizeNodes] : n \in 0..MaxNodes} :
     DistinctIds(list)}

\* ------------------------------------------------------ TestDataGenerator
\* new TestDataGenerator(): no source, no generate call yet
NewTestDataGenerator == [state |-> "idle", sources |-> <<>>]

\* what the validate of a source does: the source has none, it returns, it
\* throws, or it returns a promise that rejects
Validations == {"none", "passes", "throws", "rejects"}
SourceNames == <<"s1", "s2", "s3", "s4", "s5">>

\* config.count ?? 10 and config.concurrency ?? defaultConcurrency
DefaultCount == 10
DefaultSourceConcurrency == 10
TotalCounts == {NotDefined} \cup {Defined(c) : c \in 0..MaxTotal}
fullConfig(count, concurrency) ==
  [count |-> IF count.defined THEN count.value ELSE DefaultCount,
   concurrency |-> concurrency]

\* validateSources: the sources whose validate was called, in order, and
\* whether the promise of validateSources rejects. A validate that throws
\* ends the map; one that rejects lets the map call the rest.
RECURSIVE validateFrom(_, _, _)
validateFrom(sources, i, called) ==
  IF i > Len(sources) THEN called
  ELSE IF sources[i].validate = "none" THEN validateFrom(sources, i + 1, called)
  ELSE IF sources[i].validate = "throws" THEN Append(called, i)
  ELSE validateFrom(sources, i + 1, Append(called, i))
validateSources(sources) ==
  LET called == validateFrom(sources, 1, <<>>)
  IN [called |-> called,
      rejects |-> \E k \in 1..Len(called) :
                    sources[called[k]].validate \in {"throws", "rejects"}]

\* distributeSamples; index is 0-based in the code, i is index + 1
distributeSamplesLastFirst(totalCount, sourceCount) ==
  LET baseCount == totalCount \div sourceCount
      remainder == totalCount % sourceCount
  IN [i \in 1..sourceCount |->
        baseCount + (IF sourceCount - i < remainder THEN 1 ELSE 0)]
distributeSamples(totalCount, sourceCount) ==
  LET baseCount == totalCount \div sourceCount
      remainder == totalCount % sourceCount
  IN [i \in 1..sourceCount |->
        baseCount + (IF i - 1 < remainder THEN 1 ELSE 0)]

\* this.sources.map((source, index) => ({source, count}))
sourceTasks(sources, samplesPerSource) ==
  [i \in 1..Len(sources) |->
     [source |-> sources[i], count |-> samplesPerSource[i]]]

\* the n samples a source resolves with, and attachMetadata on each; the
\* generators explored have neither global nor per-call metadata
sourceSamples(source, n) == [i \in 1..n |-> [query |-> <<source.name, i>>]]
attachMetadata(sample, source) ==
  [query |-> sample.query, metadata |-> [source |-> source.name]]
attachAll(samples, source) ==
  [i \in 1..Len(samples) |-> attachMetadata(samples[i], source)]

\* sampleArrays.flat()
RECURSIVE flat(_)
flat(arrays) ==
  IF arrays = <<>> THEN <<>> ELSE Head(arrays) \o flat(Tail(arrays))

\* the GenerationResult generate resolves with
OnlyErrorFreeSamples(sampleArrays, errors) ==
  IF Len(errors) > 0 THEN <<>> ELSE flat(sampleArrays)
allSamples(sampleArrays, errors) == flat(sampleArrays)
generationResult(sources, sampleArrays, errors) ==
  [dataset |-> allSamples(sampleArrays, errors),
   count |-> Len(allSamples(sampleArrays, errors)),
   metadata |-> [sources |-> [i \in 1..Len(sources) |-> sources[i].name],
                 errors |-> IF Len(errors) > 0 THEN Defined(errors)
                            ELSE NotDefined]]

\* ---------------------------------------------------------------- pipeline
\* the transforms piped: tap with a callback, chunk with a splitter of one
\* piece, relationship with its default threshold
PipedTransforms ==
  {[name |-> "tap"],
   [name |-> "chunk", splitter |-> [pieces |-> 1, chunkSize |-> 11]],
   [name |-> "relationship", threshold |-> DefaultThreshold]}
TransformLists == UNION {[1..n -> PipedTransforms] : n \in 0..MaxPiped}

\* new Pipeline(kg)
NewPipeline(kg) ==
  [state |-> "built", variant |-> "Pipeline", kg |-> kg, transforms |-> <<>>,
   index |-> 0, result |-> kg, pending |-> Ok(kg), log |-> <<>>]
\* transform(graph, transformers) of part_022 before its loop
NewTransform(kg, transformers) ==
  [state |-> "built", variant |-> "transform", kg |-> kg, transforms |-> transformers,
   index |-> 0, result |-> kg, pending |-> Ok(kg), log |-> <<>>]

\* transformer.apply(graph) up to the settling of its promise: [threw, nodes]
\* with the graph it has made; tap leaves the graph to its callback
transformerApply(transformer, g) ==
  IF transformer.name = "chunk" THEN chunkApply(g, transformer.splitter)
  ELSE IF transformer.name = "relationship"
  THEN Ok(relationshipApply(g, transformer.threshold))
  ELSE Ok(g)

\* the transformer the for loop is at
transformerFromEnd(p) == p.transforms[Len(p.transforms) - p.index]
transformerAt(p) == p.transforms[p.index + 1]

\* one turn of the for loop up to its await, or the return of result
loopTurn(p) ==
  IF p.index < Len(p.transforms)
  THEN [p EXCEPT !.state = "awaiting",
                 !.index = @ + 1,
                 !.pending = transformerApply(transformerAt(p), p.result),
                 !.log = Append(@, [event |-> "start",
                                    transformer |-> transformerAt(p),
                                    graph |-> p.result])]
  ELSE [p EXCEPT !.state = "resolved"]

\* the awaited promise fulfils: result is assigned and the loop goes on
applyResolves(p) ==
  loopTurn([p EXCEPT !.result = p.pending.nodes,
                     !.log = Append(@, [event |-> "resolve",
                                        transformer |-> p.transforms[p.index],
                                        graph |-> p.pending.nodes])])

\* the awaited promise rejects: apply rejects
applyRejects(p) ==
  [p EXCEPT !.state = "rejected",
            !.log = Append(@, [event |-> "reject",
                               transformer |-> p.transforms[p.index],
                               graph |-> p.pending.nodes])]

\* ------------------------------------------------------------------ state
VARIABLES
  nodes,   \* KnowledgeGraph.nodes
  ops,     \* number of mutating calls made so far
  last,    \* the last call: its name, arguments and outcome
  trav,    \* the traverse generator in use, if any
  build,   \* the ScenarioBuilder.build call in progress, if any
  synth,   \* the synthesize call, if any
  plimit,  \* the pLimit call, if any: its loop, its fn calls, its outcome
  tdg,     \* the TestDataGenerator: its sources and its generate call
  pipe     \* the transform pipeline, if any: its transforms and its apply

vars == <<nodes, ops, last, trav, build, synth, plimit, tdg, pipe>>

Init ==
  /\ nodes = <<>>
  /\ ops = 0
  /\ last = [op |-> "new"]
  /\ trav = [state |-> "none"]
  /\ build = [state |-> "none"]
  /\ synth = [state |-> "none"]
  /\ plimit = [state |-> "none"]
  /\ tdg = NewTestDataGenerator
  /\ pipe = [state |-> "none"]

AddNode(node) ==
  /\ ops < MaxOps
  /\ nodes' = addNode(nodes, node).nodes
  /\ ops' = ops + 1
  /\ last' = [op |-> "addNode", id |-> node.id, threw |-> FALSE]
  /\ UNCHANGED <<trav, build, synth, plimit, tdg, pipe>>

RemoveNode(id) ==
  /\ ops < MaxOps
  /\ nodes' = removeNode(nodes, id).nodes
  /\ ops' = ops + 1
  /\ last' = [op |-> "removeNode", id |-> id, threw |-> FALSE,
              existed |-> MapHas(nodes, id)]
  /\ UNCHANGED <<trav, build, synth, plimit, tdg, pipe>>

AddRelationship(sourceId, targetId, relationship) ==
  /\ ops < MaxOps
  /\ LET r == addRelationship(nodes, sourceId, targetId, relationship) IN
       /\ nodes' = r.nodes
       /\ last' = [op |-> "addRelationship", source |-> sourceId,
                   target |-> targetId, threw |-> r.threw]
  /\ ops' = ops + 1
  /\ UNCHANGED <<trav, build, synth, plimit, tdg, pipe>>

RemoveRelationship(sourceId, targetId) ==
  /\ ops < MaxOps
  /\ LET r == removeRelationship(nodes, sourceId, targetId) IN
       /\ nodes' = r.nodes
       /\ last' = [op |-> "removeRelationship", source |-> sourceId,
                   target |-> targetId, threw |-> r.threw]
  /\ ops' = ops + 1
  /\ UNCHANGED <<trav, build, synth, plimit, tdg, pipe>>

GetNeighbors(id, type) ==
  /\ LET r == getNeighbors(nodes, id, type) IN
       last' = [op |-> "getNeighbors", id |-> id, type |-> type,
                threw |-> r.threw, value |-> r.value]
  /\ UNCHANGED <<nodes, ops, trav, build, synth, plimit, tdg, pipe>>

\* const g = graph(list)
Graph(list) ==
  /\ last.op = "new"
  /\ nodes' = graph(list)
  /\ last' = [op |-> "graph"]
  /\ UNCHANGED <<ops, trav, build, synth, plimit, tdg, pipe>>

\* the graph edited by its own operations, starting from the empty graph
Next ==
  \/ \E node \in FreshNodes : AddNode(node)
  \/ \E id \in NodeIds : RemoveNode(id)
  \/ \E s \in NodeIds, t \in NodeIds, r \in Relationships : AddRelationship(s, t, r)
  \/ \E s \in NodeIds, t \in NodeIds : RemoveRelationship(s, t)

Spec == Init /\ [][Next]_vars

\* g = KnowledgeGraph.fromJSON(g.toJSON()); g is kept when the call throws
RoundTrip(variant) ==
  /\ last.op # "new"
  /\ LET r == KnowledgeGraph_fromJSON(toJSON(nodes), variant) IN
       /\ nodes' = IF r.threw THEN nodes ELSE r.nodes
       /\ last' = [op |-> "roundTrip", variant |-> variant, threw |-> r.threw,
                   before |-> nodes]
  /\ UNCHANGED <<ops, trav, build, synth, plimit, tdg, pipe>>

\* g = KnowledgeGraph.fromJSON(json)
FromJSON(json, variant) ==
  /\ last.op = "new"
  /\ LET r == KnowledgeGraph_fromJSON(json, variant) IN
       /\ nodes' = IF r.threw THEN nodes ELSE r.nodes
       /\ last' = [op |-> "fromJSON", variant |-> variant, threw |-> r.threw,
                   json |-> json]
  /\ UNCHANGED <<ops, trav, build, synth, plimit, tdg, pipe>>

\* a graph built from a node list, then queried and edited
NextGraphs ==
  \/ last.op = "new" /\ \E list \in NodeLists : Graph(list)
  \/ \E variant \in Variants : RoundTrip(variant)
  \/ last.op = "new" /\ \E json \in ForeignDocuments, variant \in Variants :
       FromJSON(json, variant)
  \/ \E id \in NodeIds : RemoveNode(id)
  \/ \E id \in NodeIds, type \in RelationshipTypes \cup {Undefined} : GetNeighbors(id, type)

SpecGraphs == Init /\ [][NextGraphs]_vars

\* const it = g.traverse(id, maxDepth)
TraverseStart(id, maxDepth) ==
  /\ last.op # "new"
  /\ trav.state \in {"none", "done"}
  /\ trav' = NewTraversal(id, maxDepth)
  /\ UNCHANGED <<nodes, ops, last, build, synth, plimit, tdg, pipe>>

\* it.next()
TraverseNext ==
  /\ trav.state \in {"suspendedStart", "suspendedYield"}
  /\ trav' = traverseNext(nodes, trav)
  /\ UNCHANGED <<nodes, ops, last, build, synth, plimit, tdg, pipe>>

\* a graph built from a node list and traversed; the consumer keeps calling
\* next() until the generator is done
NextTraverse ==
  \/ last.op = "new" /\ \E list \in NodeLists : Graph(list)
  \/ \E id \in NodeIds, maxDepth \in (0..MaxDepth) \cup {Infinity} :
       TraverseStart(id, maxDepth)
  \/ TraverseNext

SpecTraverse == Init /\ [][NextTraverse]_vars /\ WF_vars(TraverseNext)

\* the node lists a mutated traversal starts from: three nodes in id order,
\* each with at most one relationship
ChainNodeLists ==
  {list \in NodeLists :
     /\ Len(list) = 3
     /\ list[1].id = "a"
     /\ \A i \in 1..3 : Len(list[i].relationships) <= 1}

\* a traverse generator whose consumer mutates the graph between two of its
\* yields
NextTraverseMutated ==
  \/ last.op = "new" /\ \E list \in ChainNodeLists : Graph(list)
  \/ /\ trav.state = "none"
     /\ \E id \in NodeIds, maxDepth \in (0..MaxDepth) \cup {Infinity} :
          TraverseStart(id, maxDepth)
  \/ TraverseNext
  \/ /\ trav.state = "suspendedYield"
     /\ ops < MaxMutations
     /\ \/ \E node \in FreshNodes : AddNode(node)
        \/ \E id \in NodeIds : RemoveNode(id)
        \/ \E s \in NodeIds, t \in NodeIds, r \in Relationships :
             AddRelationship(s, t, r)
        \/ \E s \in NodeIds, t \in NodeIds : RemoveRelationship(s, t)

SpecTraverseMutated == Init /\ [][NextTraverseMutated]_vars

\* generateScenarios(graph, persona, count, type) up to the while loop
GenerateScenarios(persona, count, type) ==
  /\ last.op # "new"
  /\ build.state = "none"
  /\ \E chunkNodes \in shuffle(getNodesByType(nodes, "chunk")) :
       build' = NewBuild(nodes, persona, count, type, chunkNodes)
  /\ UNCHANGED <<nodes, ops, last, trav, synth, plimit, tdg, pipe>>

\* one pass of the while loop: a random query config, the push, the
\* reshuffle after a full cycle
BuildStep ==
  /\ build.state = "running"
  /\ LoopRuns(build)
  /\ \E k \in 1..Len(QueryConfigs) :
       LET b == PushScenario(build, k) IN
       IF ModuloIsZero(b.pool, b.index)
       THEN \E pool \in shuffle(b.pool) : build' = [b EXCEPT !.pool = pool]
       ELSE build' = b
  /\ UNCHANGED <<nodes, ops, last, trav, synth, plimit, tdg, pipe>>

\* return scenarios
BuildReturn ==
  /\ build.state = "running"
  /\ ~LoopRuns(build)
  /\ build' = [build EXCEPT !.state = "returned"]
  /\ UNCHANGED <<nodes, ops, last, trav, synth, plimit, tdg, pipe>>

\* scenarios generated from a graph; the loop runs until it returns
NextScenarios ==
  \/ last.op = "new" /\ \E list \in ScenarioNodeLists : Graph(list)
  \/ \E persona \in Personas, count \in 0..MaxCount, type \in ScenarioTypes :
       GenerateScenarios(persona, count, type)
  \/ BuildStep
  \/ BuildReturn

SpecScenarios ==
  Init /\ [][NextScenarios]_vars /\ WF_vars(BuildStep) /\ WF_vars(BuildReturn)

\* synthesize({graph, synthesizers, personas, count, config}) up to its await
\* of pLimit: the validation, the allocation, the generateScenarios calls
Synthesize(weights, personaCount, count, config) ==
  /\ synth.state = "none"
  /\ plimit.state = "none"
  /\ LET r == allocate(weights, personaCount, count)
         calls == IF r.threw THEN <<>>
                  ELSE generateScenariosCalls(r.counts, personaCount)
     IN /\ synth' = [state |-> IF r.threw THEN "threw" ELSE "allocated",
                     weights |-> weights, personaCount |-> personaCount,
                     count |-> count, samplesPerSynthesizer |-> r.counts,
                     calls |-> calls]
        /\ plimit' = IF r.threw THEN plimit
                     ELSE NewPLimit("generate",
                                    scenariosWithSynthesizers(calls), config)
  /\ UNCHANGED <<nodes, ops, last, trav, build, tdg, pipe>>

\* the await of pLimit returns or throws: synthesize returns the dataset of
\* the samples, or rejects with the reason of pLimit
synthesizeReturnsPartial(s, p) ==
  [state |-> "returned", weights |-> s.weights,
   personaCount |-> s.personaCount, count |-> s.count,
   samplesPerSynthesizer |-> s.samplesPerSynthesizer, calls |-> s.calls,
   dataset |-> IF p.state = "resolved" THEN p.value
               ELSE [k \in 1..Len(SelectSeq(p.calls,
                                            LAMBDA c : c.state = "fulfilled")) |->
                       SelectSeq(p.calls,
                                 LAMBDA c : c.state = "fulfilled")[k].value]]
synthesizeSettles(s, p) ==
  IF p.state = "resolved"
  THEN [state |-> "returned", weights |-> s.weights,
        personaCount |-> s.personaCount, count |-> s.count,
        samplesPerSynthesizer |-> s.samplesPerSynthesizer, calls |-> s.calls,
        dataset |-> p.value]
  ELSE [state |-> "rejected", weights |-> s.weights,
        personaCount |-> s.personaCount, count |-> s.count,
        samplesPerSynthesizer |-> s.samplesPerSynthesizer, calls |-> s.calls,
        error |-> p.reason]

SynthesizeSettles ==
  /\ synth.state = "allocated"
  /\ plimit.state \in {"resolved", "rejected"}
  /\ synth' = synthesizeSettles(synth, plimit)
  /\ UNCHANGED <<nodes, ops, last, trav, build, plimit, tdg, pipe>>

NextSynthesize ==
  /\ synth.state = "none"
  /\ \E weights \in WeightLists, personaCount \in 0..MaxPersonas,
        count \in 0..MaxSamples :
       Synthesize(weights, personaCount, count, DEFAULT_CONFIG)

SpecSynthesize == Init /\ [][NextSynthesize]_vars

\* pLimit(items, fn, concurrency) with an fn that settles in one step
PLimit(items, concurrency) ==
  /\ plimit.state = "none"
  /\ plimit' = NewPLimit("fn", items, [concurrency |-> concurrency,
                                       generateGroundTruth |-> TRUE])
  /\ UNCHANGED <<nodes, ops, last, trav, build, synth, tdg, pipe>>

\* the for loop runs up to its next await, or reaches Promise.all
LoopStep ==
  /\ plimit.state = "loop"
  /\ plimit' = loopStep(plimit)
  /\ UNCHANGED <<nodes, ops, last, trav, build, synth, tdg, pipe>>

\* the for loop runs on to its next await
LoopToAwait ==
  /\ plimit.state = "loop"
  /\ plimit' = loopToAwait(plimit)
  /\ UNCHANGED <<nodes, ops, last, trav, build, synth, tdg, pipe>>

\* the await of Promise.race(executing) returns
RaceResolves ==
  /\ plimit.state = "race"
  /\ plimit' = raceResolves(plimit)
  /\ UNCHANGED <<nodes, ops, last, trav, build, synth, tdg, pipe>>

\* a pending fn(item) fulfils
Fulfil(k) ==
  /\ plimit.state # "none"
  /\ k \in 1..Len(plimit.calls)
  /\ plimit.calls[k].state = "pending"
  /\ plimit' = fulfil(plimit, k, Double(plimit.calls[k].item))
  /\ UNCHANGED <<nodes, ops, last, trav, build, synth, tdg, pipe>>

\* an unsettled fn(item) rejects
Reject(k) ==
  /\ plimit.state # "none"
  /\ k \in inFlight(plimit)
  /\ plimit' = reject(plimit, k)
  /\ UNCHANGED <<nodes, ops, last, trav, build, synth, tdg, pipe>>

\* the model answers the question request of task k
QuestionGenerated(k, question) ==
  /\ plimit.state # "none"
  /\ k \in 1..Len(plimit.calls)
  /\ plimit.calls[k].state = "question"
  /\ plimit' = questionGenerated(plimit, k, question)
  /\ UNCHANGED <<nodes, ops, last, trav, build, synth, tdg, pipe>>

\* the model answers the answer request of task k: the task returns its sample
GroundTruthGenerated(k) ==
  /\ plimit.state # "none"
  /\ k \in 1..Len(plimit.calls)
  /\ plimit.calls[k].state = "answer"
  /\ plimit' = fulfil(plimit, k,
                      generatedSample(plimit.calls[k].question,
                                      plimit.generateGroundTruth))
  /\ UNCHANGED <<nodes, ops, last, trav, build, synth, tdg, pipe>>

\* the promise of Promise.all(results) settles: it rejects once a call has
\* rejected, it fulfils once every call has fulfilled
PromiseAllSettles ==
  /\ plimit.state = "all"
  /\ \/ /\ \E k \in 1..Len(plimit.calls) : plimit.calls[k].state = "rejected"
        /\ plimit' = promiseAllRejects(plimit)
     \/ /\ \A k \in 1..Len(plimit.calls) : plimit.calls[k].state = "fulfilled"
        /\ plimit' = [state |-> "resolved", fn |-> plimit.fn,
                      items |-> plimit.items,
                      concurrency |-> plimit.concurrency,
                      generateGroundTruth |-> plimit.generateGroundTruth,
                      calls |-> plimit.calls, executing |-> plimit.executing,
                      settled |-> plimit.settled, value |-> promiseAll(plimit)]
  /\ UNCHANGED <<nodes, ops, last, trav, build, synth, tdg, pipe>>

NextPLimit ==
  \/ /\ plimit.state = "none"
     /\ \E items \in ItemLists, concurrency \in 1..MaxConcurrency :
          PLimit(items, concurrency)
  \/ LoopStep
  \/ RaceResolves
  \/ \E k \in 1..MaxItems : Fulfil(k)
  \/ \E k \in 1..MaxItems : Reject(k)
  \/ PromiseAllSettles

SpecPLimit == Init /\ [][NextPLimit]_vars

\* synthesize through to its dataset, for one or two synthesizers of weight 1
NextGenerate ==
  \/ /\ synth.state = "none"
     /\ \E weights \in {<<1>>, <<1, 1>>}, personaCount \in 1..MaxPersonas,
           count \in 0..MaxItems, config \in Configs :
          Synthesize(weights, personaCount, count, config)
  \/ LoopStep
  \/ RaceResolves
  \/ \E k \in 1..MaxItems, question \in Questions :
       QuestionGenerated(k, question)
  \/ \E k \in 1..MaxItems : GroundTruthGenerated(k)
  \/ \E k \in 1..MaxItems : Reject(k)
  \/ PromiseAllSettles
  \/ SynthesizeSettles

SpecGenerate == Init /\ [][NextGenerate]_vars

\* synthesize for one synthesizer and one persona with the ground truth on;
\* the model answers or fails every request it is sent
NextGenerateOne ==
  \/ /\ synth.state = "none"
     /\ \E count \in 0..MaxItems, concurrency \in 1..MaxConcurrency :
          Synthesize(<<1>>, 1, count, [concurrency |-> concurrency,
                                       generateGroundTruth |-> TRUE])
  \/ LoopStep
  \/ RaceResolves
  \/ \E k \in 1..MaxItems : QuestionGenerated(k, "q1")
  \/ \E k \in 1..MaxItems : GroundTruthGenerated(k)
  \/ \E k \in 1..MaxItems : Reject(k)
  \/ PromiseAllSettles
  \/ SynthesizeSettles

SpecGenerateFair ==
  Init /\ [][NextGenerateOne]_vars /\ WF_vars(NextGenerateOne)

\* relationship(threshold).apply(graph)
Relationship(threshold) ==
  /\ last.op \in {"graph", "chunk"}
  /\ nodes' = relationshipApply(nodes, threshold)
  /\ last' = [op |-> "relationship", threshold |-> threshold, before |-> nodes]
  /\ UNCHANGED <<ops, trav, build, synth, plimit, tdg, pipe>>

\* chunk(splitter).apply(graph)
Chunk(splitter) ==
  /\ last.op = "graph"
  /\ LET r == chunkApply(nodes, splitter) IN
       /\ nodes' = r.nodes
       /\ last' = [op |-> "chunk", splitter |-> splitter, before |-> nodes,
                   threw |-> r.threw]
  /\ UNCHANGED <<ops, trav, build, synth, plimit, tdg, pipe>>

\* a graph of documents and chunks put through chunk and relationship
NextTransforms ==
  \/ /\ last.op = "new"
     /\ \E list \in TransformNodeLists : Graph(list)
  \/ \E splitter \in Splitters : Chunk(splitter)
  \/ \E threshold \in Thresholds : Relationship(threshold)

SpecTransforms == Init /\ [][NextTransforms]_vars

\* summarize(model, {filter, concurrency}).apply(graph) up to its await of
\* pLimit, or to its return when no node is selected
Summarize(filter, concurrency) ==
  /\ last.op = "graph"
  /\ plimit.state = "none"
  /\ LET selected == SelectSeq(getNodes(nodes),
                               LAMBDA n : filterAccepts(filter, n))
     IN IF Len(selected) = 0
        THEN /\ last' = [op |-> "summarize", state |-> "returned",
                         filter |-> filter, before |-> nodes]
             /\ plimit' = plimit
        ELSE /\ last' = [op |-> "summarize", state |-> "running",
                         filter |-> filter, before |-> nodes]
             /\ plimit' = NewPLimit("summarize", selected,
                                    [concurrency |-> concurrency,
                                     generateGroundTruth |-> TRUE])
  /\ UNCHANGED <<nodes, ops, trav, build, synth, tdg, pipe>>

\* the task of a node with blank content settles
SummaryReturned(k) ==
  /\ plimit.state # "none"
  /\ k \in 1..Len(plimit.calls)
  /\ plimit.calls[k].state = "returned"
  /\ plimit' = summaryReturned(plimit, k)
  /\ UNCHANGED <<nodes, ops, last, trav, build, synth, tdg, pipe>>

\* generateText resolves for task k
TextGenerated(k, text) ==
  /\ plimit.state # "none"
  /\ k \in 1..Len(plimit.calls)
  /\ plimit.calls[k].state = "text"
  /\ plimit' = textGenerated(plimit, k, text)
  /\ UNCHANGED <<nodes, ops, last, trav, build, synth, tdg, pipe>>

\* generateText rejects for task k
TextFailed(k) ==
  /\ plimit.state # "none"
  /\ k \in 1..Len(plimit.calls)
  /\ plimit.calls[k].state = "text"
  /\ plimit' = textFailed(plimit, k)
  /\ UNCHANGED <<nodes, ops, last, trav, build, synth, tdg, pipe>>

\* pLimit has resolved: summarize writes the summaries and returns the graph
SummarizeReturn ==
  /\ last.op = "summarize"
  /\ last.state = "running"
  /\ plimit.state = "resolved"
  /\ nodes' = assignSummaries(nodes, plimit.value)
  /\ last' = [last EXCEPT !.state = "returned"]
  /\ UNCHANGED <<ops, trav, build, synth, plimit, tdg, pipe>>

NextSummarize ==
  \/ /\ last.op = "new"
     /\ \E list \in SummarizeNodeLists : Graph(list)
  \/ \E filter \in Filters, concurrency \in 1..MaxConcurrency :
       Summarize(filter, concurrency)
  \/ LoopStep
  \/ RaceResolves
  \/ \E k \in 1..MaxNodes : SummaryReturned(k)
  \/ \E k \in 1..MaxNodes, text \in Texts : TextGenerated(k, text)
  \/ \E k \in 1..MaxNodes : TextFailed(k)
  \/ PromiseAllSettles
  \/ SummarizeReturn

SpecSummarize == Init /\ [][NextSummarize]_vars

\* generatePersonas(kg, model, {count, concurrency}) up to its await of
\* pLimit, or to its throw when no node has a summary and its embedding
GeneratePersonas(count, concurrency) ==
  /\ last.op = "graph"
  /\ plimit.state = "none"
  /\ LET r == personaRequests(nodes, count) IN
       /\ last' = [op |-> "generatePersonas",
                   state |-> IF r.threw THEN "threw" ELSE "running",
                   count |-> count, clusters |-> r.clusters,
                   personas |-> <<>>]
       /\ plimit' = IF r.threw THEN plimit
                    ELSE NewPLimit("persona", r.selected,
                                   [concurrency |-> concurrency,
                                    generateGroundTruth |-> TRUE])
  /\ UNCHANGED <<nodes, ops, trav, build, synth, tdg, pipe>>

\* generateObject resolves for request k: the task returns the persona
PersonaGenerated(k, persona) ==
  /\ plimit.state # "none"
  /\ k \in 1..Len(plimit.calls)
  /\ plimit.calls[k].state = "persona"
  /\ plimit' = fulfil(plimit, k, Defined(persona))
  /\ UNCHANGED <<nodes, ops, last, trav, build, synth, tdg, pipe>>

\* generateObject rejects for request k: the catch returns null
PersonaFailed(k) ==
  /\ plimit.state # "none"
  /\ k \in 1..Len(plimit.calls)
  /\ plimit.calls[k].state = "persona"
  /\ plimit' = fulfil(plimit, k, NotDefined)
  /\ UNCHANGED <<nodes, ops, last, trav, build, synth, tdg, pipe>>

\* pLimit has resolved: the nulls are dropped; no persona left is an error
GeneratePersonasReturn ==
  /\ last.op = "generatePersonas"
  /\ last.state = "running"
  /\ plimit.state = "resolved"
  /\ LET personas == nonNull(plimit.value) IN
       last' = [last EXCEPT !.state = IF Len(personas) = 0 THEN "threw"
                                      ELSE "returned",
                            !.personas = personas]
  /\ UNCHANGED <<nodes, ops, trav, build, synth, plimit, tdg, pipe>>

\* generatePersonas with its default concurrency, which the requests of the
\* graphs explored never reach
NextPersonas ==
  \/ /\ last.op = "new"
     /\ \E list \in PersonaNodeLists : Graph(list)
  \/ /\ last.op = "graph"
     /\ \E count \in PersonaCounts : GeneratePersonas(count, DefaultConcurrency)
  \/ LoopStep
  \/ \E k \in 1..MaxItems, persona \in GeneratedPersonas :
       PersonaGenerated(k, persona)
  \/ \E k \in 1..MaxItems : PersonaFailed(k)
  \/ PromiseAllSettles
  \/ GeneratePersonasReturn

SpecPersonas == Init /\ [][NextPersonas]_vars

\* from(source): the source is pushed
From(source) ==
  /\ tdg.state = "idle"
  /\ Len(tdg.sources) < MaxSources
  /\ tdg' = [tdg EXCEPT !.sources = Append(@, source)]
  /\ UNCHANGED <<nodes, ops, last, trav, build, synth, plimit, pipe>>

\* generate(config) up to its await of validateSources, or its throw when
\* there is no source
Generate(count, concurrency) ==
  /\ tdg.state = "idle"
  /\ plimit.state = "none"
  /\ tdg' = IF Len(tdg.sources) = 0
            THEN [state |-> "rejected", sources |-> tdg.sources,
                  config |-> fullConfig(count, concurrency),
                  validated |-> <<>>, errors |-> <<>>]
            ELSE [state |-> "validating", sources |-> tdg.sources,
                  config |-> fullConfig(count, concurrency),
                  validated |-> validateSources(tdg.sources),
                  errors |-> <<>>]
  /\ UNCHANGED <<nodes, ops, last, trav, build, synth, plimit, pipe>>

\* validateSources has settled: generate rejects with it, or distributes the
\* count over the sources it has now and calls pLimit with the tasks
Validated ==
  /\ tdg.state = "validating"
  /\ IF tdg.validated.rejects
     THEN /\ tdg' = [tdg EXCEPT !.state = "rejected"]
          /\ UNCHANGED plimit
     ELSE LET samplesPerSource ==
                distributeSamples(tdg.config.count, Len(tdg.sources))
          IN /\ tdg' = [state |-> "generating", sources |-> tdg.sources,
                        config |-> tdg.config, validated |-> tdg.validated,
                        errors |-> tdg.errors,
                        samplesPerSource |-> samplesPerSource]
             /\ plimit' = NewPLimit("source",
                             sourceTasks(tdg.sources, samplesPerSource),
                             [concurrency |-> tdg.config.concurrency,
                              generateGroundTruth |-> TRUE])
  /\ UNCHANGED <<nodes, ops, last, trav, build, synth, pipe>>

\* task.source.generate of task k resolves with n samples: the task returns
\* them with the source metadata attached
SourceGenerated(k, n) ==
  /\ plimit.state # "none"
  /\ k \in 1..Len(plimit.calls)
  /\ plimit.calls[k].state = "source"
  /\ LET source == plimit.calls[k].item.source IN
       plimit' = fulfil(plimit, k, attachAll(sourceSamples(source, n), source))
  /\ UNCHANGED <<nodes, ops, last, trav, build, synth, tdg, pipe>>

\* task.source.generate of task k rejects: the catch pushes the error and
\* returns []
SourceFailed(k) ==
  /\ plimit.state # "none"
  /\ k \in 1..Len(plimit.calls)
  /\ plimit.calls[k].state = "source"
  /\ tdg' = [tdg EXCEPT !.errors =
                Append(@, <<"error of", plimit.calls[k].item.source.name>>)]
  /\ plimit' = fulfil([plimit EXCEPT !.calls[k].rejected = TRUE], k, <<>>)
  /\ UNCHANGED <<nodes, ops, last, trav, build, synth, pipe>>

\* pLimit has resolved: generate resolves with its GenerationResult
GenerateResolves ==
  /\ tdg.state = "generating"
  /\ plimit.state = "resolved"
  /\ tdg' = [state |-> "resolved", sources |-> tdg.sources,
             config |-> tdg.config, validated |-> tdg.validated,
             errors |-> tdg.errors, samplesPerSource |-> tdg.samplesPerSource,
             result |-> generationResult(tdg.sources, plimit.value,
                                         tdg.errors)]
  /\ UNCHANGED <<nodes, ops, last, trav, build, synth, plimit, pipe>>

\* a generator is given its sources, at most one of them with a validate,
\* and is then asked once for a dataset with the default concurrency, which
\* the sources explored never reach; a source resolves with the count asked
\* of it or with a single sample
NextTestData ==
  \/ \E validate \in Validations :
       /\ validate # "none" =>
            \A i \in 1..Len(tdg.sources) : tdg.sources[i].validate = "none"
       /\ From([name |-> SourceNames[Len(tdg.sources) + 1],
                validate |-> validate])
  \/ \E count \in TotalCounts : Generate(count, DefaultSourceConcurrency)
  \/ Validated
  \/ LoopToAwait
  \/ \E k \in 1..MaxSources :
       /\ plimit.state # "none"
       /\ k \in 1..Len(plimit.calls)
       /\ \E n \in {plimit.calls[k].item.count, 1} : SourceGenerated(k, n)
  \/ \E k \in 1..MaxSources : SourceFailed(k)
  \/ PromiseAllSettles
  \/ GenerateResolves

SpecTestData == Init /\ [][NextTestData]_vars

\* transform(kg) of utils.ts: a pipeline over the graph
TransformBuilder ==
  /\ last.op = "graph"
  /\ pipe.state = "none"
  /\ pipe' = NewPipeline(nodes)
  /\ UNCHANGED <<nodes, ops, last, trav, build, synth, plimit, tdg>>

\* pipe(transform): the transform is pushed, also while apply is iterating
Pipe(transformer) ==
  /\ pipe.state \in {"built", "awaiting"}
  /\ pipe.variant = "Pipeline"
  /\ Len(pipe.transforms) < MaxPiped
  /\ pipe' = [pipe EXCEPT !.transforms = Append(@, transformer)]
  /\ UNCHANGED <<nodes, ops, last, trav, build, synth, plimit, tdg>>

\* apply() up to its first await, or to its return when nothing is piped;
\* the transform started works on the graph in place
PipelineApply ==
  /\ pipe.state = "built"
  /\ pipe.variant = "Pipeline"
  /\ pipe' = loopTurn(pipe)
  /\ nodes' = loopTurn(pipe).pending.nodes
  /\ UNCHANGED <<ops, last, trav, build, synth, plimit, tdg>>

\* transform(graph, transformers) of part_022 up to its first await
TransformAll(transformers) ==
  /\ last.op = "graph"
  /\ pipe.state = "none"
  /\ pipe' = loopTurn(NewTransform(nodes, transformers))
  /\ nodes' = loopTurn(NewTransform(nodes, transformers)).pending.nodes
  /\ UNCHANGED <<ops, last, trav, build, synth, plimit, tdg>>

\* the promise of the transform in flight fulfils; the callback of tap may
\* resolve, chunk resolves unless it threw
TransformResolves ==
  /\ pipe.state = "awaiting"
  /\ ~pipe.pending.threw
  /\ pipe' = applyResolves(pipe)
  /\ nodes' = applyResolves(pipe).pending.nodes
  /\ UNCHANGED <<ops, last, trav, build, synth, plimit, tdg>>

\* the promise of the transform in flight rejects: chunk threw, or the
\* callback of tap threw or rejected
TransformRejects ==
  /\ pipe.state = "awaiting"
  /\ pipe.pending.threw \/ pipe.transforms[pipe.index].name = "tap"
  /\ pipe' = applyRejects(pipe)
  /\ UNCHANGED <<nodes, ops, last, trav, build, synth, plimit, tdg>>

\* a graph of at most two nodes put through a pipeline, or through
\* transform with a list
NextPipeline ==
  \/ /\ last.op = "new"
     /\ \E list \in {l \in TransformNodeLists : Len(l) <= 2} : Graph(list)
  \/ TransformBuilder
  \/ \E transformer \in PipedTransforms : Pipe(transformer)
  \/ PipelineApply
  \/ \E transformers \in TransformLists : TransformAll(transformers)
  \/ TransformResolves
  \/ TransformRejects

SpecPipeline == Init /\ [][NextPipeline]_vars

\* ------------------------------------------------------------ properties
Range(s) == {s[i] : i \in 1..Len(s)}
RelationshipsOf(g, id) == MapGet(g, id).relationships
DanglingKeys(g) ==
  {k \in UNION {MapKeys(g[i][2].relationships) : i \in 1..Len(g)} : ~MapHas(g, k)}

\* C1: from the empty graph, after any sequence of addNode (of nodes with an
\* empty relationship map), removeNode, addRelationship and removeRelationship
\* calls, throwing ones included, every key of every node's relationships map
\* is the id of a node of the graph.
C1_NoDanglingEdges == DanglingKeys(nodes) = {}

C1_Witness ==
  /\ last.op = "removeNode"
  /\ last.existed
  /\ \E i \in 1..Len(nodes) : nodes[i][2].relationships # <<>>

\* C2: addRelationship throws exactly when the source or the target is not a
\* node of the graph and then changes nothing; otherwise it succeeds and
\* getNeighbors(source) contains the target.
C2_AddRelationship ==
  [][(last'.op = "addRelationship" /\ ops' # ops) =>
       LET absent == ~MapHas(nodes, last'.source) \/ ~MapHas(nodes, last'.target)
       IN /\ last'.threw = absent
          /\ absent => nodes' = nodes
          /\ ~absent =>
               /\ ~getNeighbors(nodes', last'.source, Undefined).threw
               /\ last'.target \in
                    Range(getNeighbors(nodes', last'.source, Undefined).value)]_vars

C2_Witness ==
  /\ last.op = "addRelationship"
  /\ last.threw
  /\ MapHas(nodes, last.source)
  /\ ~MapHas(nodes, last.target)
  /\ Len(nodes) >= 2

\* C3: after removeNode(id), whether or not id was a node, the graph has no
\* node id and no remaining node has a relationship keyed by id.
C3_RemoveNode ==
  last.op = "removeNode" =>
    /\ ~MapHas(nodes, last.id)
    /\ \A i \in 1..Len(nodes) : ~MapHas(nodes[i][2].relationships, last.id)

C3_Witness ==
  /\ last.op = "removeNode"
  /\ ~last.existed
  /\ Len(nodes) >= 1
  /\ DanglingKeys(nodes) # {}

\* C7: getNeighbors(id, type?) throws when id is absent; otherwise it returns
\* only nodes of the graph, also when the relationships map of id holds keys
\* of absent nodes, and with a type filter only targets of relationships of
\* that type.
C7_GetNeighbors ==
  last.op = "getNeighbors" =>
    /\ last.threw = ~MapHas(nodes, last.id)
    /\ \A n \in Range(last.value) :
         /\ MapHas(nodes, n)
         /\ MapHas(RelationshipsOf(nodes, last.id), n)
         /\ last.type # Undefined =>
              MapGet(RelationshipsOf(nodes, last.id), n).type = last.type

C7_Witness ==
  /\ last.op = "getNeighbors"
  /\ ~last.threw
  /\ last.type = "similarity"
  /\ last.value # <<>>
  /\ \E k \in MapKeys(RelationshipsOf(nodes, last.id)) :
       ~MapHas(nodes, k) /\ MapGet(RelationshipsOf(nodes, last.id), k).type = "similarity"
  /\ \E k \in MapKeys(RelationshipsOf(nodes, last.id)) :
       MapHas(nodes, k) /\ MapGet(RelationshipsOf(nodes, last.id), k).type = "hierarchy"

\* the nodes of g whose shortest directed path from id has at most k edges
RECURSIVE WithinHops(_, _, _)
WithinHops(g, id, k) ==
  IF k = 0 THEN {id} \cap MapKeys(g)
  ELSE LET near == WithinHops(g, id, k - 1) IN
       near \cup {n \in MapKeys(g) :
                    \E m \in near : MapHas(RelationshipsOf(g, m), n)}
HopsOf(g, maxDepth) == IF maxDepth = Infinity THEN Len(g) ELSE maxDepth
NoDuplicates(s) == \A i, j \in 1..Len(s) : s[i] = s[j] => i = j

TraverseYieldsOk ==
  (trav.state \in {"suspendedStart", "suspendedYield", "done"} /\ MapHas(nodes, trav.id)) =>
    /\ ~trav.threw
    /\ NoDuplicates(trav.yielded)
    /\ Range(trav.yielded) \subseteq WithinHops(nodes, trav.id, HopsOf(nodes, trav.maxDepth))
    /\ trav.state = "done" =>
         Range(trav.yielded) = WithinHops(nodes, trav.id, HopsOf(nodes, trav.maxDepth))

\* C4: for a start id of the graph and maxDepth >= 0, traverse on an
\* unmodified graph yields exactly the nodes whose shortest directed path from
\* id has at most maxDepth edges, each exactly once, and then terminates.
C4_Traverse ==
  /\ []TraverseYieldsOk
  /\ [](trav.state \in {"suspendedStart", "suspendedYield"} => <>(trav.state = "done"))

C4_Witness ==
  /\ trav.state = "done"
  /\ trav.maxDepth = 1
  /\ Len(trav.yielded) = 2
  /\ Len(nodes) = 3
  /\ WithinHops(nodes, trav.id, 2) = MapKeys(nodes)
  /\ DanglingKeys(nodes) = {}

\* g and h hold the same ids, with the same type, content, metadata and
\* relationships (neighbor id and relationship object) per id
SameGraph(g, h) ==
  /\ MapKeys(g) = MapKeys(h)
  /\ \A id \in MapKeys(g) :
       /\ MapGet(g, id).type = MapGet(h, id).type
       /\ MapGet(g, id).content = MapGet(h, id).content
       /\ MapGet(g, id).metadata = MapGet(h, id).metadata
       /\ MapKeys(RelationshipsOf(g, id)) = MapKeys(RelationshipsOf(h, id))
       /\ \A k \in MapKeys(RelationshipsOf(g, id)) :
            MapGet(RelationshipsOf(g, id), k) = MapGet(RelationshipsOf(h, id), k)

\* C5: for every graph g of document and chunk nodes,
\* KnowledgeGraph.fromJSON(g.toJSON()) returns a graph with the same node ids,
\* the same type, content and metadata per id and the same relationships.
C5_RoundTrip ==
  last.op = "roundTrip" => ~last.threw /\ SameGraph(last.before, nodes)

KnownType(type) == type \in {"document", "chunk"}
JSONTypes(json) == {json.nodes[i].type : i \in 1..Len(json.nodes)}

\* C6: KnowledgeGraph.fromJSON rebuilds each serialized node as the variant
\* its type field names and fails with an error, instead of dropping the
\* node, when a serialized node has an unknown type.
C6_FromJSON ==
  /\ (last.op = "fromJSON" /\ \E type \in JSONTypes(last.json) : ~KnownType(type)) =>
       last.threw
  /\ last.op = "roundTrip" =>
       /\ ~last.threw
       /\ \A id \in MapKeys(last.before) :
            MapHas(nodes, id) /\ MapGet(nodes, id).type = MapGet(last.before, id).type

ChunkCount(g) == Len(getNodesByType(g, "chunk"))

ReturnsCount ==
  (build.state = "returned" /\ ChunkCount(nodes) >= 1) =>
    Len(build.scenarios) = build.count

\* C8: generateScenarios(graph, persona, N, type) returns exactly N scenarios
\* for both types whenever the graph holds at least one chunk node, for N
\* smaller or larger than the number of chunks or groups, and terminates.
C8_ScenarioCount ==
  /\ []ReturnsCount
  /\ [](build.state = "running" => <>(build.state = "returned"))

C8_Witness ==
  /\ build.state = "returned"
  /\ build.type = "multi-hop"
  /\ Len(build.pool) = 1
  /\ Len(build.scenarios) = 2
  /\ ChunkCount(nodes) = 3

ScenarioShapeOk(scenario) ==
  /\ scenario.context.nodes.defined
  /\ LET list == scenario.context.nodes.value IN
       /\ Len(list) >= 1
       /\ \A i \in 1..Len(list) :
            MapHas(nodes, list[i]) /\ MapGet(nodes, list[i]).type = "chunk"
       /\ scenario.query.type = "single-hop" => Len(list) = 1
       /\ scenario.query.type = "multi-hop" => Len(list) >= 2
  /\ scenario.query.length \in Range(QueryLengths)
  /\ scenario.query.style \in Range(QueryStyles)
  /\ scenario.query.type \in ScenarioTypes

\* C9: every scenario returned by generateScenarios, for either type and every
\* graph with at least one chunk node (a single chunk asked for multi-hop
\* included), has context.nodes a non-empty list of chunk nodes of the graph,
\* of length 1 for single-hop and at least 2 for multi-hop, and a query whose
\* length, style and type are all set.
C9_ScenarioShape ==
  (build.state = "returned" /\ ChunkCount(nodes) >= 1) =>
    \A i \in 1..Len(build.scenarios) : ScenarioShapeOk(build.scenarios[i])

\* the first place of the largest entry
FirstLargest(counts) ==
  CHOOSE i \in 1..Len(counts) :
    /\ \A j \in 1..Len(counts) : counts[j] <= counts[i]
    /\ \A j \in 1..(i - 1) : counts[j] < counts[i]

\* C10: for every non-empty list of weights with positive sum and every
\* count >= 0, the allocations synthesize computes, round(count * weight /
\* totalWeight) with the signed difference added to the first largest one,
\* sum exactly to count.
C10_AllocationsSum ==
  (synth.state = "allocated" /\ SumSeq(synth.weights) > 0) =>
    /\ SumSeq(synth.samplesPerSynthesizer) = synth.count
    /\ \A i \in 1..Len(synth.weights) :
         i # FirstLargest(roundedCounts(synth.weights, synth.count)) =>
           synth.samplesPerSynthesizer[i] =
             roundedCounts(synth.weights, synth.count)[i]

C10_Witness ==
  /\ synth.state = "allocated"
  /\ SumSeq(synth.weights) > 0
  /\ Len(synth.weights) = 3
  /\ SumSeq(roundedCounts(synth.weights, synth.count)) > synth.count
  /\ SumSeq(synth.samplesPerSynthesizer) = synth.count

\* a weight list synthesize accepts: no negative weight, a positive total
ValidWeights(weights) ==
  /\ Len(weights) > 0
  /\ \A i \in 1..Len(weights) : weights[i] >= 0
  /\ SumSeq(weights) > 0

\* C11: for every valid weight list, every number of personas >= 1 and every
\* count, no allocation is negative after the correction, the scenario
\* counts asked of generateScenarios add up to count, and as many tasks as
\* count are handed to pLimit.
C11_ExactlyCount ==
  (synth.state = "allocated" /\ ValidWeights(synth.weights)) =>
    /\ \A i \in 1..Len(synth.samplesPerSynthesizer) :
         synth.samplesPerSynthesizer[i] >= 0
    /\ scenariosRequested(synth.calls) = synth.count
    /\ Len(plimit.items) = synth.count

\* C12: a synthesize call with no synthesizer, no persona or a total weight
\* that is zero or negative throws, with no generateScenarios call made and
\* no task started.
C12_Validation ==
  (/\ synth.state # "none"
   /\ \/ Len(synth.weights) = 0
      \/ synth.personaCount = 0
      \/ SumSeq(synth.weights) <= 0) =>
    /\ synth.state = "threw"
    /\ synth.calls = <<>>
    /\ plimit.state = "none"

\* C13: with generateGroundTruth disabled no task of synthesize sends an
\* answer request to the model and no sample of the dataset carries a
\* reference; with it enabled every sample's reference is the answer to the
\* question generated for that sample, requested after the question.
C13_GroundTruth ==
  (plimit.state # "none" /\ plimit.fn = "generate") =>
    /\ ~plimit.generateGroundTruth =>
         /\ \A k \in 1..Len(plimit.calls) :
              "answer" \notin Range(plimit.calls[k].requests)
         /\ plimit.state = "resolved" =>
              \A k \in 1..Len(plimit.value) :
                "reference" \notin DOMAIN plimit.value[k]
    /\ plimit.generateGroundTruth =>
         \A k \in 1..Len(plimit.calls) :
           plimit.calls[k].state = "fulfilled" =>
             /\ plimit.calls[k].requests = <<"question", "answer">>
             /\ plimit.calls[k].value.reference =
                  Answer(plimit.calls[k].value.query)

\* C14: while pLimit runs, the calls of fn that have started and not settled
\* are never more than concurrency.
C14_ConcurrencyLimit ==
  (plimit.state # "none" /\ plimit.fn = "fn") =>
    Cardinality(inFlight(plimit)) <= plimit.concurrency

\* C15: pLimit calls fn once for each item, in item order; its promise is
\* settled only after fn was called for every item, it rejects only if a
\* call rejected, and when it resolves its value is the list of fn's results
\* in item order, whatever the order the calls completed in and whatever
\* the concurrency >= 1; for the empty list the value is the empty list.
C15_ResultsInItemOrder ==
  (plimit.state # "none" /\ plimit.fn = "fn") =>
    /\ Len(plimit.calls) <= Len(plimit.items)
    /\ \A k \in 1..Len(plimit.calls) : plimit.calls[k].item = plimit.items[k]
    /\ plimit.state \in {"all", "resolved", "rejected"} =>
         Len(plimit.calls) = Len(plimit.items)
    /\ plimit.state = "rejected" =>
         \E k \in 1..Len(plimit.calls) : plimit.calls[k].state = "rejected"
    /\ plimit.state = "resolved" =>
         plimit.value = [k \in 1..Len(plimit.items) |-> Double(plimit.items[k])]

C15_Witness ==
  /\ plimit.state = "resolved"
  /\ plimit.fn = "fn"
  /\ Len(plimit.items) >= 2
  /\ plimit.items[1] # plimit.items[2]
  /\ plimit.settled[1] # 1
  /\ plimit.value[1] = Double(plimit.items[1])

\* the relationship node holds towards id, if any
EdgeOf(node, id) ==
  IF MapHas(node.relationships, id)
  THEN Defined(MapGet(node.relationships, id)) ELSE NotDefined

\* chunk p of the graph before comes before chunk q, both have embeddings
\* and their cosine similarity reaches the threshold
Linked(before, p, q, threshold) ==
  /\ p < q
  /\ HasEmbeddings(before[p][2])
  /\ HasEmbeddings(before[q][2])
  /\ cosineSimilarity(before[p][2].metadata.embeddings,
                      before[q][2].metadata.embeddings) >= threshold

\* C16: relationship(threshold).apply sets the relationship from chunk i to
\* chunk j, i before j in node order and both with embeddings, to a
\* similarity edge scored with their cosine similarity exactly when that
\* similarity is >= threshold; every other relationship of every node (from
\* j back to i, of a document, of a chunk without embeddings, towards any
\* other id) and every node's id, type, content and metadata stay as they were.
C16_Relationship ==
  last.op = "relationship" =>
    /\ Len(nodes) = Len(last.before)
    /\ \A p \in 1..Len(nodes) :
         /\ nodes[p][1] = last.before[p][1]
         /\ [nodes[p][2] EXCEPT !.relationships = <<>>] =
              [last.before[p][2] EXCEPT !.relationships = <<>>]
         /\ \A q \in 1..Len(nodes) :
              EdgeOf(nodes[p][2], nodes[q][1]) =
                IF Linked(last.before, p, q, last.threshold)
                THEN Defined(Similarity(cosineSimilarity(
                       last.before[p][2].metadata.embeddings,
                       last.before[q][2].metadata.embeddings)))
                ELSE EdgeOf(last.before[p][2], nodes[q][1])
         /\ \A id \in MapKeys(nodes[p][2].relationships)
                      \cup MapKeys(last.before[p][2].relationships) :
              ~MapHas(nodes, id) =>
                EdgeOf(nodes[p][2], id) = EdgeOf(last.before[p][2], id)

C16_Witness ==
  /\ last.op = "relationship"
  /\ \E p, q, r \in 1..Len(nodes) :
       /\ Linked(last.before, p, q, last.threshold)
       /\ ~Linked(last.before, p, q, last.threshold + 1)
       /\ EdgeOf(last.before[p][2], nodes[q][1]) = NotDefined
       /\ EdgeOf(nodes[p][2], nodes[q][1]) = Defined(Similarity(last.threshold))
       /\ p < r /\ HasEmbeddings(nodes[r][2])
       /\ ~Linked(last.before, p, r, last.threshold)
       /\ EdgeOf(nodes[p][2], nodes[r][1]) = NotDefined

\* the document nodes of a graph, and the chunks the splitter makes of them
DocumentsOf(g) == {g[p][2] : p \in {q \in 1..Len(g) : g[q][2].type = "document"}}
ChunksOfDocument(d, splitter) == Range(split(nodeToDocument(d), splitter))

\* node is a chunk node made of chunk, a chunk of document d
IsChunkNodeOf(node, chunk, d) ==
  /\ node.id = chunk.id
  /\ node.type = "chunk"
  /\ node.content = chunk.content
  /\ DOMAIN node.metadata = DOMAIN d.metadata \cup DOMAIN chunk.metadata
  /\ \A k \in DOMAIN chunk.metadata : node.metadata[k] = chunk.metadata[k]
  /\ \A k \in DOMAIN d.metadata \ DOMAIN chunk.metadata :
       node.metadata[k] = d.metadata[k]

\* what chunk(splitter).apply leaves in graph g for the documents it found
ChunkedOk(g, documents, splitter) ==
  \A d \in documents :
    /\ MapHas(g, d.id)
    /\ [MapGet(g, d.id) EXCEPT !.relationships = <<>>] =
         [d EXCEPT !.relationships = <<>>]
    /\ \A chunk \in ChunksOfDocument(d, splitter) :
         /\ MapHas(g, chunk.id)
         /\ IsChunkNodeOf(MapGet(g, chunk.id), chunk, d)
         /\ EdgeOf(MapGet(g, d.id), chunk.id) = Defined(Hierarchy("parent"))
         /\ EdgeOf(MapGet(g, chunk.id), d.id) = Defined(Hierarchy("child"))

NoIdClash(documents, splitter) ==
  /\ \A d, e \in documents :
       \A chunk \in ChunksOfDocument(d, splitter) : chunk.id # e.id
  /\ \A d, e \in documents :
       \A c1 \in ChunksOfDocument(d, splitter),
          c2 \in ChunksOfDocument(e, splitter) : c1.id = c2.id => c1 = c2

CallFor(id) ==
  plimit.calls[CHOOSE k \in 1..Len(plimit.calls) : plimit.calls[k].item.id = id]

\* the summary a selected node is to carry once summarize has returned
SummaryOk(before, after) ==
  LET c == CallFor(before.id) IN
  /\ "summary" \in DOMAIN after.metadata
  /\ DOMAIN after.metadata = DOMAIN before.metadata \cup {"summary"}
  /\ IF Blank(before.content)
     THEN c.requests = <<>> /\ after.metadata.summary = ""
     ELSE /\ c.requests = <<"text">>
          /\ after.metadata.summary =
               IF c.response.defined THEN c.response.value ELSE ""

\* C18: summarize.apply never rejects because a text generation failed, and
\* once it has returned every selected node carries a summary: the empty
\* string for a node whose generation failed (or whose content is blank),
\* the generated text for every other one; every other metadata key of every
\* node, and the metadata of every node not selected, is as it was.
C18_Summarize ==
  last.op = "summarize" =>
    /\ plimit.state # "rejected"
    /\ last.state = "returned" =>
         /\ Len(nodes) = Len(last.before)
         /\ \A p \in 1..Len(nodes) :
              LET before == last.before[p][2]
                  after == nodes[p][2]
              IN /\ [after EXCEPT !.metadata = <<>>] =
                      [before EXCEPT !.metadata = <<>>]
                 /\ \A key \in DOMAIN before.metadata \ {"summary"} :
                      /\ key \in DOMAIN after.metadata
                      /\ after.metadata[key] = before.metadata[key]
                 /\ IF filterAccepts(last.filter, before)
                    THEN SummaryOk(before, after)
                    ELSE after.metadata = before.metadata

C18_Witness ==
  /\ last.op = "summarize"
  /\ last.state = "returned"
  /\ plimit.state = "resolved"
  /\ \E p, q \in 1..Len(nodes) :
       /\ filterAccepts(last.filter, nodes[p][2])
       /\ filterAccepts(last.filter, nodes[q][2])
       /\ ~Blank(nodes[p][2].content)
       /\ ~Blank(nodes[q][2].content)
       /\ "embeddings" \in DOMAIN nodes[p][2].metadata
       /\ ~CallFor(nodes[p][1]).response.defined
       /\ nodes[p][2].metadata.summary = ""
       /\ CallFor(nodes[q][1]).response = Defined("a longer summary")
       /\ nodes[q][2].metadata.summary = "a longer summary"

\* the nodes generatePersonas clusters, in node order
PersonaInput == SelectSeq(getNodes(nodes), hasSummaryEmbedding)
PositionIn(ns, node) == CHOOSE i \in 1..Len(ns) : ns[i] = node
SummarySimilarity(x, y) ==
  cosineSimilarity(x.metadata.summaryEmbedding, y.metadata.summaryEmbedding)
\* the places <<c, m>> of the members of the clusters
Places(cs) == {<<c, m>> \in (1..Len(cs)) \X (1..MaxNodes + 1) : m <= Len(cs[c])}

\* three nodes A, B, C, A and B similar, C similar to neither
TwoAndOne(ns) ==
  /\ Len(ns) = 3
  /\ \E a, b, c \in 1..3 :
       /\ {a, b, c} = 1..3
       /\ SummarySimilarity(ns[a], ns[b]) >= SimilarityThreshold
       /\ SummarySimilarity(ns[c], ns[a]) < SimilarityThreshold
       /\ SummarySimilarity(ns[c], ns[b]) < SimilarityThreshold

\* C19: the clusters partition the input nodes; taking the nodes in input
\* order, each node is in the first cluster, in creation order, whose first
\* member has cosine similarity >= 0.75 with it, and opens a new cluster
\* when there is none; three nodes of which two are similar and the third
\* is similar to neither make exactly two clusters in every input order.
\* (Stated of the clusters as generatePersonas has just computed them; no
\* later step writes them.)
C19_Clusters ==
  (last.op = "generatePersonas" /\ last.state = "running"
     /\ plimit.calls = <<>>) =>
    LET cs == last.clusters
        ns == PersonaInput
    IN /\ \A i \in 1..Len(ns) :
            Cardinality({pl \in Places(cs) : cs[pl[1]][pl[2]] = ns[i]}) = 1
       /\ Cardinality(Places(cs)) = Len(ns)
       /\ \A pl \in Places(cs) :
            LET c == pl[1]
                m == pl[2]
                x == cs[c][m]
            IN /\ \A c2 \in 1..(c - 1) :
                    SummarySimilarity(x, cs[c2][1]) < SimilarityThreshold
               /\ m > 1 =>
                    /\ SummarySimilarity(x, cs[c][1]) >= SimilarityThreshold
                    /\ PositionIn(ns, cs[c][m - 1]) < PositionIn(ns, x)
               /\ (m = 1 /\ c > 1) =>
                    PositionIn(ns, cs[c - 1][1]) < PositionIn(ns, x)
       /\ TwoAndOne(ns) => Len(cs) = 2

C19_Witness ==
  /\ last.op = "generatePersonas"
  /\ last.state = "running"
  /\ plimit.calls = <<>>
  /\ TwoAndOne(PersonaInput)
  /\ Len(last.clusters) = 2
  /\ Len(last.clusters[2]) = 2

\* the member of a cluster with the longest summary, as {node, summary}
IsLongestOf(item, cluster) ==
  /\ \E m \in 1..Len(cluster) :
       /\ cluster[m].id = item.node
       /\ cluster[m].metadata.summary = item.summary
  /\ \A m \in 1..Len(cluster) :
       Len(cluster[m].metadata.summary) <= Len(item.summary)

\* C20: with k clusters, generatePersonas sends count requests when a count
\* is given and k requests when none is given, one request for each entry,
\* the i-th (from 0) for the member with the longest summary of cluster
\* i mod k.
C20_PersonaRequests ==
  (last.op = "generatePersonas" /\ plimit.state # "none") =>
    LET k == Len(last.clusters) IN
    /\ Len(plimit.items) =
         IF last.count.defined THEN last.count.value ELSE k
    /\ \A i \in 1..Len(plimit.items) :
         IsLongestOf(plimit.items[i], last.clusters[((i - 1) % k) + 1])
    /\ Len(plimit.calls) <= Len(plimit.items)
    /\ plimit.state \in {"all", "resolved"} =>
         Len(plimit.calls) = Len(plimit.items)
    /\ \A i \in 1..Len(plimit.calls) :
         /\ plimit.calls[i].item = plimit.items[i]
         /\ plimit.calls[i].requests = <<"persona">>

\* C20 for the counts that select a list of their own length
C20_PositiveCount ==
  (last.op = "generatePersonas" /\ last.count # Defined(0)) =>
    C20_PersonaRequests

\* the requests of generatePersonas that succeeded, and the k-th of them
Succeeded == {k \in 1..Len(plimit.calls) : plimit.calls[k].value.defined}
SuccessAt(i) ==
  CHOOSE k \in Succeeded : Cardinality({j \in Succeeded : j <= k}) = i

\* C21: in generatePersonas a failed persona request is dropped without
\* aborting the others. Once generatePersonas has settled after its requests,
\* every request was issued and has settled; when at least one succeeded the
\* call returns the personas of the successful requests in request order,
\* and it throws exactly when every request failed.
C21_FailedDropped ==
  (last.op = "generatePersonas" /\ last.state \in {"returned", "threw"}
     /\ plimit.state # "none") =>
    /\ plimit.state = "resolved"
    /\ Len(plimit.calls) = Len(plimit.items)
    /\ \A k \in 1..Len(plimit.calls) : plimit.calls[k].state = "fulfilled"
    /\ (last.state = "threw") <=> (Succeeded = {})
    /\ last.state = "returned" =>
         /\ Len(last.personas) = Cardinality(Succeeded)
         /\ \A i \in 1..Len(last.personas) :
              last.personas[i] = plimit.calls[SuccessAt(i)].value.value

\* generatePersonas returned two different personas although its first
\* request failed
C21_Witness ==
  /\ last.op = "generatePersonas"
  /\ last.state = "returned"
  /\ Len(plimit.calls) = 3
  /\ ~plimit.calls[1].value.defined
  /\ Len(last.personas) = 2
  /\ last.personas[1] # last.personas[2]

\* every request of generatePersonas failed and the call threw
C21_AllFailed ==
  /\ last.op = "generatePersonas"
  /\ last.state = "threw"
  /\ plimit.state = "resolved"
  /\ Len(plimit.calls) >= 2

\* C22: whenever the multi-hop grouping finds at least one qualifying group,
\* the context of every multi-hop scenario is one of the groups found and
\* has between 2 and maxHops+1 chunk nodes; no group outside that size range
\* is among the groups.
C22_ContextSize ==
  (build.state # "none" /\ build.type = "multi-hop" /\ build.groups # <<>>) =>
    /\ \A i \in 1..Len(build.groups) :
         Len(build.groups[i]) >= 2 /\ Len(build.groups[i]) <= MaxHops + 1
    /\ \A i \in 1..Len(build.scenarios) :
         LET context == build.scenarios[i].context.nodes IN
           /\ context.defined
           /\ context.value \in Range(build.groups)
           /\ Len(context.value) >= 2
           /\ Len(context.value) <= MaxHops + 1
           /\ \A n \in 1..Len(context.value) :
                MapGet(nodes, context.value[n]).type = "chunk"

\* two multi-hop scenarios were built from the one group of three chunks
\* that the grouping found in a graph of four connected chunks
C22_Witness ==
  /\ build.state = "returned"
  /\ build.type = "multi-hop"
  /\ ChunkCount(nodes) = 4
  /\ Len(build.groups) = 1
  /\ Len(build.scenarios) = 2
  /\ \A i \in 1..2 : Len(build.scenarios[i].context.nodes.value) = MaxHops + 1

\* an edge the grouping may follow, and the chunks within k such edges of
\* id along chunk nodes
IsChunk(g, id) == MapHas(g, id) /\ MapGet(g, id).type = "chunk"
MayFollow(relationship) ==
  IF relationship.type = "similarity"
  THEN relationship.score >= MinSimilarityScore
  ELSE relationship.type = "hierarchy"
ChunksAfter(g, id) ==
  {e[1] : e \in {e \in Range(MapGet(g, id).relationships) :
                   MayFollow(e[2]) /\ IsChunk(g, e[1])}}
RECURSIVE ChunksWithin(_, _, _)
ChunksWithin(g, id, k) ==
  IF k = 0 THEN {id}
  ELSE LET near == ChunksWithin(g, id, k - 1)
       IN near \cup UNION {ChunksAfter(g, n) : n \in near}

\* C25: every node of a group returned by the multi-hop grouping is a chunk
\* node that a directed path of at most maxHops edges through chunk nodes
\* reaches from the start chunk of the group, every edge of the path being a
\* hierarchy edge or a similarity edge of at least the minimum score; no
\* chunk is in two groups or twice in one.
C25_GroupsReachable ==
  (build.state # "none" /\ build.type = "multi-hop") =>
    /\ \A i \in 1..Len(build.groups) :
         LET group == build.groups[i] IN
           /\ IsChunk(nodes, group[1])
           /\ Range(group) \subseteq ChunksWithin(nodes, group[1], MaxHops)
           /\ NoDuplicates(group)
    /\ \A i, j \in 1..Len(build.groups) :
         i # j => Range(build.groups[i]) \cap Range(build.groups[j]) = {}

\* the grouping was started at the first chunk of a chain of four chunks and
\* returned the first three: the fourth is a third hop away
C25_Witness ==
  /\ build.state # "none"
  /\ build.type = "multi-hop"
  /\ build.groups = <<<<"a", "b", "c">>>>
  /\ ChunkCount(nodes) = 4
  /\ "d" \in ChunksAfter(nodes, "c")

\* the groups as sets of chunks
GroupSets(groups) == {Range(groups[i]) : i \in 1..Len(groups)}

Share(c, n, i) == (c \div n) + (IF i <= c % n THEN 1 ELSE 0)

SamplesOf(dataset, k) ==
  SelectSeq(dataset, LAMBDA sample : sample.metadata.source = tdg.sources[k].name)
RejectedSources == {k \in 1..Len(plimit.calls) : plimit.calls[k].rejected}

\* C24: when the generate call of a source rejects, generate still resolves:
\* the dataset holds the samples of every source that succeeded and none of
\* a failed one, metadata.errors holds one error per failed source, and count
\* is the number of samples returned. When a validate throws or rejects,
\* generate rejects and the generate of no source has been called.
C24_SourceErrors ==
  /\ tdg.state = "generating" => plimit.state # "rejected"
  /\ tdg.state = "resolved" =>
       LET result == tdg.result IN
         /\ \A k \in 1..Len(tdg.sources) :
              SamplesOf(result.dataset, k) =
                IF k \in RejectedSources THEN <<>> ELSE plimit.calls[k].value
         /\ result.count = Len(result.dataset)
         /\ result.count =
              SumSeq([k \in 1..Len(plimit.calls) |-> Len(plimit.calls[k].value)])
         /\ result.metadata.errors.defined <=> RejectedSources # {}
         /\ result.metadata.errors.defined =>
              /\ Len(result.metadata.errors.value) = Cardinality(RejectedSources)
              /\ Range(result.metadata.errors.value) =
                   {<<"error of", tdg.sources[k].name>> : k \in RejectedSources}
  /\ (tdg.state # "idle" /\ Len(tdg.sources) > 0 /\ tdg.validated.rejects) =>
       /\ tdg.state \in {"validating", "rejected"}
       /\ plimit.state = "none"
  /\ tdg.state = "rejected" => plimit.state = "none"

\* the first of three sources failed and generate resolved with the samples
\* of the two others, which are not as many as were asked for
C24_Witness ==
  /\ tdg.state = "resolved"
  /\ Len(tdg.sources) = 3
  /\ RejectedSources = {1}
  /\ Len(plimit.calls[2].value) > 0
  /\ Len(plimit.calls[3].value) > 0
  /\ tdg.result.count # tdg.config.count - plimit.calls[1].item.count

\* generate rejected because the validate of the second source threw
C24_ValidateWitness ==
  /\ tdg.state = "rejected"
  /\ Len(tdg.sources) >= 2
  /\ tdg.sources[2].validate = "throws"
  /\ tdg.validated.called = <<2>>

\* the generateScenarios calls made for synthesizer i and persona index
CallsFor(i, index) ==
  SelectSeq(synth.calls, LAMBDA c : c.synthesizer = i /\ c.persona = index)

\* C26: for a synthesizer with allocation a and p personas, synthesize asks
\* generateScenarios once for each persona whose share is positive, and for
\* no other persona, the share being floor(a/p) plus one for the first
\* a mod p personas; for a >= 0 the shares differ by at most one and the
\* counts asked for sum to a. The calls follow the order of the synthesizers
\* and, within one, of the personas.
C26_PersonaSplit ==
  synth.state = "allocated" =>
    LET p == synth.personaCount IN
    /\ \A i \in 1..Len(synth.samplesPerSynthesizer), index \in 0..(p - 1) :
         LET a == synth.samplesPerSynthesizer[i]
             share == Share(a, p, index + 1)
         IN /\ share > 0 => CallsFor(i, index) =
                              <<[synthesizer |-> i, persona |-> index,
                                 personaCount |-> share]>>
            /\ share <= 0 => CallsFor(i, index) = <<>>
            /\ a >= 0 => share \in {a \div p, (a \div p) + 1}
    /\ \A i \in 1..Len(synth.samplesPerSynthesizer) :
         synth.samplesPerSynthesizer[i] >= 0 =>
           scenariosRequested(SelectSeq(synth.calls,
                                        LAMBDA c : c.synthesizer = i))
             = synth.samplesPerSynthesizer[i]
    /\ \A k \in 1..(Len(synth.calls) - 1) :
         \/ synth.calls[k].synthesizer < synth.calls[k + 1].synthesizer
         \/ /\ synth.calls[k].synthesizer = synth.calls[k + 1].synthesizer
            /\ synth.calls[k].persona < synth.calls[k + 1].persona

\* two personas share an allocation of 1, which leaves the second without a
\* call, and an allocation of 3, which gives the first one more
C26_Witness ==
  /\ synth.state = "allocated"
  /\ synth.personaCount = 2
  /\ synth.samplesPerSynthesizer = <<1, 3>>
  /\ Len(synth.calls) = 3
  /\ synth.calls[2].personaCount = 2

\* the transforms apply has started, in the order it started them
Started == SelectSeq(pipe.log, LAMBDA e : e.event = "start")

\* C27: Pipeline.apply runs the piped transforms one at a time in the order
\* they were piped. The log of apply alternates a start with the settling
\* of the transform started; the j-th start is of the j-th transform piped;
\* the first transform receives the graph of the pipeline and every later
\* one the graph the transform before it resolved with; a rejection is the
\* last entry of the log and rejects apply; apply resolves, after every
\* transform, with the graph the last one resolved with.
C27_Sequential ==
  pipe.state # "none" =>
    /\ \A j \in 1..Len(Started) : Started[j].transformer = pipe.transforms[j]
    /\ \A i \in 1..Len(pipe.log) :
         LET e == pipe.log[i] IN
         IF i % 2 = 1
         THEN /\ e.event = "start"
              /\ e.graph = IF i = 1 THEN pipe.kg ELSE pipe.log[i - 1].graph
         ELSE /\ e.event \in {"resolve", "reject"}
              /\ e.transformer = pipe.log[i - 1].transformer
              /\ e.event = "reject" => i = Len(pipe.log)
    /\ pipe.state = "awaiting" <=> Len(pipe.log) % 2 = 1
    /\ pipe.state = "rejected" <=>
         (pipe.log # <<>> /\ pipe.log[Len(pipe.log)].event = "reject")
    /\ pipe.state = "resolved" =>
         /\ Len(pipe.log) = 2 * Len(pipe.transforms)
         /\ pipe.result = IF pipe.log = <<>> THEN pipe.kg
                          ELSE pipe.log[Len(pipe.log)].graph

\* chunk and then relationship were piped and apply has resolved: chunk
\* changed the graph and relationship was started with the graph chunk made
C27_Witness ==
  /\ pipe.state = "resolved"
  /\ Len(pipe.log) = 4
  /\ pipe.log[1].transformer.name = "chunk"
  /\ pipe.log[3].transformer.name = "relationship"
  /\ pipe.log[2].graph # pipe.kg
  /\ pipe.log[3].graph = pipe.log[2].graph

\* the first of two transforms rejected and the second was never started
C27_RejectWitness ==
  /\ pipe.state = "rejected"
  /\ Len(pipe.transforms) = 2
  /\ Len(pipe.log) = 2

\* the tasks of synthesize whose generate call rejected
RejectedTasks ==
  IF plimit.state = "none" THEN {}
  ELSE {k \in 1..Len(plimit.calls) : plimit.calls[k].state = "rejected"}
\* every task has been started and has settled
AllSettled ==
  /\ plimit.state # "none"
  /\ Len(plimit.calls) = Len(plimit.items)
  /\ inFlight(plimit) = {}

\* synthesize rejects, with the reason of pLimit and without a dataset, when
\* a task has rejected, and pLimit rejects only after starting every task

C29_RejectsWhole ==
  (plimit.state # "none" /\ plimit.fn = "generate") =>
    /\ plimit.state = "rejected" =>
         /\ Len(plimit.calls) = Len(plimit.items)
         /\ plimit.reason \in RejectedTasks
    /\ synth.state = "rejected" =>
         /\ plimit.state = "rejected"
         /\ synth.error = plimit.reason
         /\ "dataset" \notin DOMAIN synth
         /\ Cardinality(RejectedTasks) = 1 => RejectedTasks = {synth.error}
    /\ synth.state = "returned" =>
         /\ RejectedTasks = {}
         /\ Len(synth.dataset) = Len(plimit.items)

\* C29: when the generate call of a task rejects, synthesize rejects with
\* that failure and returns no dataset, not even of the samples generated;
\* pLimit rejects only after its loop has started every task, and every
\* task started goes on to settle.
C29_TaskRejection ==
  /\ []C29_RejectsWhole
  /\ (RejectedTasks # {}) ~> (synth.state = "rejected")
  /\ (RejectedTasks # {}) ~> AllSettled

\* the second of three tasks rejected first, synthesize has rejected with
\* it, and the two other tasks have returned their samples since
C29_Witness ==
  /\ synth.state = "rejected"
  /\ Len(plimit.items) = 3
  /\ synth.error = 2
  /\ plimit.settled[1] = 2
  /\ plimit.calls[1].state = "fulfilled"
  /\ plimit.calls[3].state = "fulfilled"

C30_NoDuplicates == trav.state # "none" => NoDuplicates(trav.yielded)

====
